---- MODULE Spec2Model ----
(***************************************************************************)
(* Model of nova/scheduler/client/report.py: the scheduler report client   *)
(* (SchedulerReportClient) that reconciles compute-node inventory with the *)
(* placement service and claims allocations for consumers.                 *)
(*                                                                         *)
(* These specifications share this module:                                 *)
(*   SpecMerge  the pure move-operation merge                              *)
(*              (_move_operation_alloc_request)                            *)
(*   SpecAlloc  the allocation write operations (claim_resources,          *)
(*              set_and_clear_allocations, put_allocations,                *)
(*              remove_provider_from_instance_allocation)                  *)
(*   Spec       the provider cache and the inventory protocols             *)
(*              (_ensure_resource_provider, _update_inventory,             *)
(*              _delete_inventory) against a placement service             *)
(*   SpecClasses the same with custom resource classes                     *)
(*              (_ensure_resource_class)                                   *)
(*   SpecDelete delete_allocation_for_instance and                         *)
(*              delete_resource_provider                                   *)
(*   SpecRebuild threads sharing the client while _create_client runs      *)
(***************************************************************************)
EXTENDS Integers, Sequences, FiniteSets, TLC

(***************************************************************************)
(* Bounds of the model.                                                    *)
(***************************************************************************)
\* largest amount of one resource class in an input allocation line
MaxAmount == 1
\* largest number of lines of a destination allocation request
MaxDestLines == 2

\* resource provider uuids; "S" plays a shared (storage) provider
Providers == {"A", "B", "S"}
\* the order in which a dict keyed by provider uuid is iterated
ProviderOrder == <<"A", "B", "S">>
\* resource classes (report.py lines 38-40)
VCPU == "VCPU"
MEMORY_MB == "MEMORY_MB"
ResourceClasses == {VCPU, MEMORY_MB}

Max(a, b) == IF a >= b THEN a ELSE b

(***************************************************************************)
(* Resource maps: a dict resource class -> amount is a function whose      *)
(* domain is a subset of ResourceClasses.                                  *)
(***************************************************************************)
\* d.get(k, 0)
Get(d, k) == IF k \in DOMAIN d THEN d[k] ELSE 0

\* every non-empty resource dict with amounts 1..n
ResourceMaps(n) ==
    UNION { [S -> 1..n] : S \in (SUBSET ResourceClasses) \ {{}} }

\* scheduler_utils.merge_resources(original, new, sign): per resource class
\* the original amount plus sign times the new amount, never below zero
merge_resources(original, new, sign) ==
    [k \in (DOMAIN original) \cup (DOMAIN new) |->
        Max(0, Get(original, k) + sign * Get(new, k))]

\* one line of an allocation request:
\* {'resource_provider': {'uuid': u}, 'resources': r}
Line(u, r) == [uuid |-> u, resources |-> r]

\* dict.items() of a dict keyed by provider uuid, as a sequence of lines
RECURSIVE ItemsFrom(_, _)
ItemsFrom(d, i) ==
    IF i > Len(ProviderOrder) THEN <<>>
    ELSE IF ProviderOrder[i] \in DOMAIN d
         THEN <<Line(ProviderOrder[i], d[ProviderOrder[i]].resources)>>
              \o ItemsFrom(d, i + 1)
         ELSE ItemsFrom(d, i + 1)

\* the uuids referenced by a sequence of lines
UuidsOf(lines) == { lines[i].uuid : i \in 1..Len(lines) }

(***************************************************************************)
(* _move_operation_alloc_request                                           *)
(***************************************************************************)
\* lines 226-233: sum the resources of alloc into every current line of the
\* same provider
SumInto(current_allocs, alloc) ==
    [i \in 1..Len(current_allocs) |->
        IF current_allocs[i].uuid = alloc.uuid
        THEN Line(current_allocs[i].uuid,
                  merge_resources(current_allocs[i].resources,
                                  alloc.resources, 1))
        ELSE current_allocs[i]]

\* a slip of lines 214-216: sums also when new providers are being claimed
MergeStepAlwaysSum(allocations, alloc, new_rp_uuids) ==
    IF alloc.uuid \in new_rp_uuids
    THEN Append(allocations, alloc)
    ELSE SumInto(allocations, alloc)

\* a slip of lines 230-233: replaces the current amounts instead of summing
MergeStepReplace(allocations, alloc, new_rp_uuids) ==
    IF alloc.uuid \in new_rp_uuids
    THEN Append(allocations, alloc)
    ELSE IF new_rp_uuids = {}
         THEN [i \in 1..Len(allocations) |->
                 IF allocations[i].uuid = alloc.uuid THEN alloc
                 ELSE allocations[i]]
         ELSE allocations

\* a slip of line 214: a destination line of a new provider is not added
MergeStepNoAppend(allocations, alloc, new_rp_uuids) ==
    IF new_rp_uuids = {}
    THEN SumInto(allocations, alloc)
    ELSE allocations

\* lines 213-233: the body of the loop over the destination lines
MergeStep(allocations, alloc, new_rp_uuids) ==
    IF alloc.uuid \in new_rp_uuids
    THEN Append(allocations, alloc)
    ELSE IF new_rp_uuids = {}
         THEN SumInto(allocations, alloc)
         ELSE allocations

RECURSIVE MergeLoop(_, _, _, _)
MergeLoop(allocations, dest, i, new_rp_uuids) ==
    IF i > Len(dest) THEN allocations
    ELSE MergeLoop(MergeStep(allocations, dest[i], new_rp_uuids),
                   dest, i + 1, new_rp_uuids)

\* lines 181-237; the result is the list new_alloc_req['allocations']
move_operation_alloc_request(source_allocs, dest_alloc_req) ==
    LET cur_rp_uuids == DOMAIN source_allocs
        new_rp_uuids == UuidsOf(dest_alloc_req) \ cur_rp_uuids
        current_allocs == ItemsFrom(source_allocs, 1)
    IN  MergeLoop(current_allocs, dest_alloc_req, 1, new_rp_uuids)

(***************************************************************************)
(* State of the merge specification.                                       *)
(***************************************************************************)
VARIABLES
    m_pc,            \* "input" before the call, "done" after it
    source_allocs,   \* dict provider uuid -> [resources |-> dict]
    dest_alloc_req,  \* list of lines of the destination request
    new_alloc_req    \* list of lines of the result (<<>> before the call)

mergeVars == <<m_pc, source_allocs, dest_alloc_req, new_alloc_req>>

\* the current allocations of a consumer as GET /allocations/{consumer}
\* returns them: a dict over a non-empty set of providers
AllocationDicts(n) ==
    UNION { [P -> [resources : ResourceMaps(n)]] :
            P \in (SUBSET Providers) \ {{}} }

\* sequences of 1..n lines over distinct providers
RECURSIVE LineSeqs(_, _)
LineSeqs(n, amt) ==
    IF n = 0 THEN {<<>>}
    ELSE LET shorter == LineSeqs(n - 1, amt)
         IN  shorter \cup
             { Append(s, Line(u, r)) :
                 s \in { t \in shorter : Len(t) = n - 1 },
                 u \in Providers, r \in ResourceMaps(amt) }

\* the place of a provider uuid in ProviderOrder
Pos(u) == CHOOSE i \in 1..Len(ProviderOrder) : ProviderOrder[i] = u

\* destination requests: 1..n lines, one line per provider, the providers in
\* ascending or in descending order
DestRequests(n, amt) ==
    { s \in LineSeqs(n, amt) :
        /\ Len(s) >= 1
        /\ \/ \A i \in 1..(Len(s) - 1) : Pos(s[i].uuid) < Pos(s[i + 1].uuid)
           \/ \A i \in 1..(Len(s) - 1) : Pos(s[i].uuid) > Pos(s[i + 1].uuid) }

\* the inputs of the merge: the current allocations of a consumer that holds
\* some (claim_resources merges only a non-empty allocation set, line 1309)
\* and a destination request
SourceInputs == AllocationDicts(MaxAmount)
DestInputs == DestRequests(MaxDestLines, MaxAmount)

MergeInit ==
    /\ m_pc = "input"
    /\ source_allocs \in SourceInputs
    /\ dest_alloc_req \in DestInputs
    /\ new_alloc_req = <<>>

MoveOperationAllocRequest ==
    /\ m_pc = "input"
    /\ m_pc' = "done"
    /\ new_alloc_req' =
          move_operation_alloc_request(source_allocs, dest_alloc_req)
    /\ UNCHANGED <<source_allocs, dest_alloc_req>>

\* the merge is not part of the run
MergeIdle ==
    /\ m_pc = "off"
    /\ source_allocs = <<>>
    /\ dest_alloc_req = <<>>
    /\ new_alloc_req = <<>>


(***************************************************************************)
(* The allocation write operations.  Every HTTP call is answered with a    *)
(* response (a status and a text) or raises a keystoneauth failure that    *)
(* safe_connect swallows.                                                  *)
(***************************************************************************)
\* a slip of line 111: one attempt too many
RetryLimitFour == 3 + 1

\* line 111: range(0, 3), the attempts of the retries decorator
RetryLimit == 3

\* the failures safe_connect catches (lines 65-93)
TransportErrors ==
    {"EndpointNotFound", "MissingAuthPlugin", "Unauthorized",
     "DiscoveryFailure", "ConnectFailure"}

\* statuses the placement service answers an allocation write with
WriteStatuses == {200, 204, 406, 409, 500}
\* statuses it answers GET /allocations/{consumer} with
ReadStatuses == {200, 404, 500}

\* an answered call; conflict says that the text holds the phrase
\* 'concurrently updated'
Response(status, conflict) ==
    [kind |-> "response", status |-> status, conflict |-> conflict]
\* a call that raised one of the TransportErrors
Raised(error) == [kind |-> "raised", error |-> error]
NoCall == [kind |-> "none"]

WriteOutcomes ==
    { Response(st, c) : st \in WriteStatuses, c \in BOOLEAN }
    \cup { Raised(e) : e \in TransportErrors }

\* a slip of lines 1330, 1491, 1550: every 2xx status counts as success
AnySuccessStatus(status) == status \in 200..299

\* lines 1330, 1491, 1550: r.status_code == 204
NoContent(status) == status = 204

\* a slip of lines 1318, 1479, 1538: every failed write is retried
RetryAnyFailure(r) == ~NoContent(r.status)

\* lines 1315-1322, 1476-1483, 1535-1542: the write raises Retry
RaisesRetry(r) == ~NoContent(r.status) /\ r.conflict

VARIABLES
    a_op,        \* the running operation, or "idle"
    a_args,      \* its arguments
    a_attempt,   \* attempts the retries decorator has finished
    a_read,      \* the answer to the last GET of the consumer's allocations
    a_writes,    \* allocation writes (PUT or POST) issued by the call
    a_conflicts, \* those answered non-204 with 'concurrently updated'
    a_first,     \* the outcome of the first write of the call
    a_last,      \* the outcome of the last write of the call
    a_payload,   \* the body of the last write
    a_result     \* "pending", or the returned value: "True", "False", "None"

allocVars ==
    <<a_op, a_args, a_attempt, a_read, a_writes, a_conflicts, a_first,
      a_last, a_payload, a_result>>

NoArgs ==
    [alloc_request |-> <<>>, rp_uuid |-> "none", resources |-> <<>>,
     consumer_to_clear |-> "none"]

AllocIdle ==
    /\ a_op = "idle"
    /\ a_args = NoArgs
    /\ a_attempt = 0
    /\ a_read = NoCall
    /\ a_writes = 0
    /\ a_conflicts = 0
    /\ a_first = NoCall
    /\ a_last = NoCall
    /\ a_payload = <<>>
    /\ a_result = "pending"

\* the call begins: op and its arguments
Call(op, args) ==
    /\ a_op = "idle"
    /\ a_op' = op
    /\ a_args' = args
    /\ UNCHANGED <<a_attempt, a_read, a_writes, a_conflicts, a_first,
                   a_last, a_payload, a_result>>

\* 1 when the outcome is an answer that is no success and holds the phrase
ConflictCount(outcome) ==
    IF outcome.kind = "response" /\ outcome.status # 204 /\ outcome.conflict
    THEN 1 ELSE 0

\* n more writes were issued, the last with this body and this outcome
Wrote(n, body, outcome) ==
    /\ a_writes' = a_writes + n
    /\ a_conflicts' = a_conflicts + ConflictCount(outcome)
    /\ a_first' = IF a_writes = 0 THEN outcome ELSE a_first
    /\ a_last' = outcome
    /\ a_payload' = body

\* lines 60-94 and 103-121: what the decorated call returns after an attempt
\* whose last write had this outcome: safe_connect turns a raised transport
\* failure into None, retries turns Retry into the next attempt and, out of
\* attempts, into False
Decorated(w) ==
    IF w.kind = "raised"
    THEN a_result' = "None" /\ a_attempt' = a_attempt + 1
    ELSE IF RaisesRetry(w)
         THEN /\ a_attempt' = a_attempt + 1
              /\ a_result' = IF a_attempt + 1 >= RetryLimit
                             THEN "False" ELSE "pending"
         ELSE /\ a_attempt' = a_attempt + 1
              /\ a_result' = IF NoContent(w.status) THEN "True" ELSE "False"

\* the requests claim_resources is called with
ClaimRequests ==
    { s \in DestRequests(2, 1) : UuidsOf(s) \subseteq {"A", "B"} }
\* the allocations the consumer may hold when GET answers 200
ClaimReads ==
    {<<>>} \cup { d \in AllocationDicts(1) : DOMAIN d \subseteq {"A", "S"} }

ReadOutcomes(allocs) ==
    { [kind |-> "response", status |-> 200, allocations |-> d] : d \in allocs }
    \cup { [kind |-> "response", status |-> st, allocations |-> <<>>] :
             st \in ReadStatuses \ {200} }
    \cup { Raised(e) : e \in TransportErrors }

\* lines 1312-1313 and 1416-1418: the body of PUT /allocations/{consumer}
AllocationsBody(lines, with_project) ==
    [allocations |-> lines, project_id |-> with_project,
     user_id |-> with_project]

\* a slip of lines 1307-1310: the request is sent as is also during a move
ClaimPayloadNoMerge(read, ar) == AllocationsBody(ar, TRUE)

\* a mistake at line 1306: an attempt after a Retry builds its payload from
\* the allocations the attempt before it read
ClaimPayloadStaleRead(read, ar) ==
    LET used == IF a_attempt > 0 THEN a_read ELSE read
    IN  IF used.kind = "response" /\ used.status = 200
           /\ used.allocations # <<>>
        THEN AllocationsBody(
                move_operation_alloc_request(used.allocations, ar), TRUE)
        ELSE AllocationsBody(ar, TRUE)

\* lines 1298-1313: the payload of one attempt of claim_resources
ClaimPayload(read, ar) ==
    IF read.status = 200 /\ read.allocations # <<>>
    THEN AllocationsBody(
            move_operation_alloc_request(read.allocations, ar), TRUE)
    ELSE AllocationsBody(ar, TRUE)

CallClaimResources ==
    \E ar \in ClaimRequests :
        Call("claim_resources", [NoArgs EXCEPT !.alloc_request = ar])

\* lines 1266-1330: one attempt of claim_resources under retries and
\* safe_connect
ClaimResourcesAttempt ==
    /\ a_op = "claim_resources"
    /\ a_result = "pending"
    /\ \E r \in ReadOutcomes(ClaimReads) :
          /\ a_read' = r
          /\ IF r.kind = "raised"
             THEN /\ Decorated(r)
                  /\ UNCHANGED <<a_writes, a_conflicts, a_first, a_last,
                                 a_payload>>
             ELSE \E w \in WriteOutcomes :
                     /\ Wrote(1, ClaimPayload(r, a_args.alloc_request), w)
                     /\ Decorated(w)
    /\ UNCHANGED <<a_op, a_args>>

\* a mistake at lines 1468-1473: the document leaves the other consumer out
SetOnlyPayload(rp_uuid, consumer_uuid, alloc_data, consumer_to_clear) ==
    consumer_uuid :>
        [allocations |-> (rp_uuid :> [resources |-> alloc_data]),
         project_id |-> TRUE, user_id |-> TRUE]

\* lines 1457-1473: the document of POST /allocations
SetAndClearPayload(rp_uuid, consumer_uuid, alloc_data, consumer_to_clear) ==
    LET set == consumer_uuid :>
                  [allocations |-> (rp_uuid :> [resources |-> alloc_data]),
                   project_id |-> TRUE, user_id |-> TRUE]
        clear == consumer_to_clear :>
                  [allocations |-> <<>>,
                   project_id |-> TRUE, user_id |-> TRUE]
    IN  IF consumer_to_clear # "none" THEN clear @@ set ELSE set

CallSetAndClearAllocations ==
    \E rp \in {"A", "B"}, data \in ResourceMaps(1),
       clear \in {"none", "migration"} :
        Call("set_and_clear_allocations",
             [NoArgs EXCEPT !.rp_uuid = rp, !.resources = data,
                            !.consumer_to_clear = clear])

\* lines 1428-1491: one attempt of set_and_clear_allocations
SetAndClearAllocationsAttempt ==
    /\ a_op = "set_and_clear_allocations"
    /\ a_result = "pending"
    /\ \E w \in WriteOutcomes :
          /\ Wrote(1, SetAndClearPayload(a_args.rp_uuid, "instance",
                                         a_args.resources,
                                         a_args.consumer_to_clear), w)
          /\ Decorated(w)
    /\ UNCHANGED <<a_op, a_args, a_read>>

\* what the placement service holds for the two consumers of a move before
\* the POST: the migration holds the allocation parked on the source
HeldBefore ==
    ("instance" :> <<>>)
    @@ ("migration" :> ("A" :> [resources |-> (VCPU :> 1)]))

\* POST /allocations: the placement service takes the whole document, or
\* nothing of it
Posted(held, doc, outcome) ==
    IF outcome.kind = "response" /\ outcome.status = 204
    THEN [c \in DOMAIN held |->
             IF c \in DOMAIN doc THEN doc[c].allocations ELSE held[c]]
    ELSE held

CallPutAllocations ==
    \E rp \in {"A", "B"}, data \in ResourceMaps(1) :
        Call("put_allocations",
             [NoArgs EXCEPT !.rp_uuid = rp, !.resources = data])

\* lines 1493-1550: one attempt of put_allocations; a 406 answer to the
\* PUT at version 1.8 is followed by a PUT without project and user
PutAllocationsAttempt ==
    /\ a_op = "put_allocations"
    /\ a_result = "pending"
    /\ LET lines == <<Line(a_args.rp_uuid, a_args.resources)>>
       IN  \E w1 \in WriteOutcomes :
              IF w1.kind = "response" /\ w1.status = 406
              THEN \E w2 \in WriteOutcomes :
                      /\ a_writes' = a_writes + 2
                      /\ a_conflicts' = a_conflicts + ConflictCount(w1)
                                         + ConflictCount(w2)
                      /\ a_first' = IF a_writes = 0 THEN w1 ELSE a_first
                      /\ a_last' = w2
                      /\ a_payload' = AllocationsBody(lines, FALSE)
                      /\ Decorated(w2)
              ELSE /\ Wrote(1, AllocationsBody(lines, TRUE), w1)
                   /\ Decorated(w1)
    /\ UNCHANGED <<a_op, a_args, a_read>>

\* the allocations a consumer may hold when
\* remove_provider_from_instance_allocation reads them
RemoveReads == {<<>>} \cup AllocationDicts(MaxAmount)

CallRemoveProvider ==
    \E rp \in Providers, res \in ResourceMaps(MaxAmount) :
        Call("remove_provider_from_instance_allocation",
             [NoArgs EXCEPT !.rp_uuid = rp, !.resources = res])

\* lines 1380-1381
compute_providers(current_allocs) ==
    { u \in DOMAIN current_allocs : VCPU \in DOMAIN current_allocs[u].resources }

\* a slip of line 1398: the line is kept whenever some provider holds VCPU
SameHostResizeAnyCompute(current_allocs) ==
    Cardinality(compute_providers(current_allocs)) >= 1

\* line 1398: len(compute_providers) == 1
SameHostResize(current_allocs) ==
    Cardinality(compute_providers(current_allocs)) = 1

\* lines 1387-1418: the body of the PUT
RemovePayload(current_allocs, rp_uuid, resources) ==
    LET others == [u \in (DOMAIN current_allocs) \ {rp_uuid} |->
                      current_allocs[u]]
        new_allocs == ItemsFrom(others, 1)
        peer_alloc == Line(rp_uuid,
                           merge_resources(current_allocs[rp_uuid].resources,
                                           resources, -1))
    IN  AllocationsBody(
            IF SameHostResize(current_allocs)
            THEN Append(new_allocs, peer_alloc) ELSE new_allocs,
            TRUE)

\* a slip of lines 1374-1378: an absent provider is reported as a failure
AbsentProviderFails(current_allocs, rp_uuid) == "False"

\* lines 1367-1378: the value returned without a PUT, or "go on"
RemoveEarlyReturn(current_allocs, rp_uuid) ==
    IF current_allocs = <<>> THEN "False"
    ELSE IF rp_uuid \notin DOMAIN current_allocs THEN "True"
    ELSE "go on"

\* lines 1332-1426: remove_provider_from_instance_allocation under
\* safe_connect
RemoveProviderFromInstanceAllocation ==
    /\ a_op = "remove_provider_from_instance_allocation"
    /\ a_result = "pending"
    /\ a_attempt' = a_attempt + 1
    /\ \E r \in ReadOutcomes(RemoveReads) :
          /\ a_read' = r
          /\ IF r.kind = "raised"
             THEN /\ a_result' = "None"
                  /\ UNCHANGED <<a_writes, a_conflicts, a_first, a_last,
                                 a_payload>>
             ELSE IF r.status # 200
             THEN /\ a_result' = "False"
                  /\ UNCHANGED <<a_writes, a_conflicts, a_first, a_last,
                                 a_payload>>
             ELSE IF RemoveEarlyReturn(r.allocations, a_args.rp_uuid) # "go on"
             THEN /\ a_result' =
                        RemoveEarlyReturn(r.allocations, a_args.rp_uuid)
                  /\ UNCHANGED <<a_writes, a_conflicts, a_first, a_last,
                                 a_payload>>
             ELSE \E w \in WriteOutcomes :
                     /\ Wrote(1, RemovePayload(r.allocations, a_args.rp_uuid,
                                               a_args.resources), w)
                     /\ a_result' =
                           IF w.kind = "raised" THEN "None"
                           ELSE IF NoContent(w.status) THEN "True"
                           ELSE "False"
    /\ UNCHANGED <<a_op, a_args>>

\* the call has returned; the client is ready for the next call
Return ==
    /\ a_op # "idle"
    /\ a_result # "pending"
    /\ a_op' = "idle"
    /\ a_args' = NoArgs
    /\ a_attempt' = 0
    /\ a_read' = NoCall
    /\ a_writes' = 0
    /\ a_conflicts' = 0
    /\ a_first' = NoCall
    /\ a_last' = NoCall
    /\ a_payload' = <<>>
    /\ a_result' = "pending"

(***************************************************************************)
(* The provider cache and the inventory protocols.                         *)
(*                                                                         *)
(* The client runs one call at a time; pc says at which HTTP call the      *)
(* running call stands.  The placement service holds, for each provider,   *)
(* whether it exists, its generation, its inventory and its aggregates;    *)
(* other writers change the provider of the compute node between the       *)
(* calls of the client.                                                    *)
(***************************************************************************)
\* how many times the other actors change the compute node's provider
MaxOthers == 1
\* largest total of a resource class in an inventory
MaxTotal == 1
\* how often the clock advances
MaxTicks == 1
\* how many calls the client makes
MaxCalls == 2

\* line 47
ASSOCIATION_REFRESH == 300

\* the clock at the start, and the seconds of one advance: more than the
\* refresh interval
StartTime == ASSOCIATION_REFRESH + 1
TickSeconds == ASSOCIATION_REFRESH + 1

\* the provider of the compute node, and a provider sharing through an
\* aggregate
Node == "A"
Sharing == "S"
CachedProviders == {Node, Sharing}
Aggregates == {"agg"}
\* a provider in an aggregate of the sharing provider the compute node's
\* provider is not in
Far == "F"
FarAggregates == {"far"}

\* generation=None
NoGen == -1

\* An inventory dict is a sequence of [rc, total] over distinct resource
\* classes: the dict in its key order.  The inventories of the compute
\* node: none, its VCPUs, or its memory and its VCPUs.
Inventory(rc, total) == [rc |-> rc, total |-> total]
InventoriesUpTo(n) ==
    {<<>>}
    \cup { <<Inventory(VCPU, t)>> : t \in 1..n }
    \cup { <<Inventory(MEMORY_MB, 1), Inventory(VCPU, 1)>> }
Inventories == InventoriesUpTo(MaxTotal)

\* the custom resource class of a virt driver (lines 794-806)
CUSTOM_IRON_SILVER == "CUSTOM_IRON_SILVER"

\* the custom classes a caller names
CustomClasses == {CUSTOM_IRON_SILVER, "CUSTOM_GOLD"}

\* inventory dicts that hold the custom class, and the empty one
CustomInventories ==
    { <<>>, <<Inventory(CUSTOM_IRON_SILVER, 1)>>,
      <<Inventory(CUSTOM_IRON_SILVER, 1), Inventory(VCPU, 1)>> }

\* lines 983-985: the keys of inv_data not in fields.ResourceClass.STANDARD,
\* in the order of the dict
CustomClassesOf(inv) ==
    SelectSeq([i \in 1..Len(inv) |-> inv[i].rc],
              LAMBDA rc : rc \notin ResourceClasses)

\* what an inventory dict holds, whatever the order of its keys
ContentOf(inv) == { <<inv[i].rc, inv[i].total>> : i \in 1..Len(inv) }

\* the order in which the placement service lists an inventory: VCPU
\* before MEMORY_MB
Canon(inv) ==
    IF Len(inv) = 2 /\ inv[1].rc = MEMORY_MB
    THEN <<inv[2], inv[1]>>
    ELSE inv
RemoteInventories == { Canon(inv) : inv \in Inventories }

\* the traits the placement service holds for a provider
RemoteTraits(u) == IF u = Node THEN {"HW_CPU_X86_AVX"} ELSE {}

(***************************************************************************)
(* provider_tree.ProviderTree, the cache: a function from the cached uuids *)
(* to their data.                                                          *)
(***************************************************************************)
ProviderData(gen, parent) ==
    [generation |-> gen, inventory |-> <<>>, aggregates |-> {},
     traits |-> {}, parent |-> parent]

exists(tree, uuid) == uuid \in DOMAIN tree

new_root(tree, uuid, generation) ==
    (uuid :> ProviderData(generation, "none")) @@ tree

new_child(tree, parent, uuid, generation) ==
    (uuid :> ProviderData(generation, parent)) @@ tree

\* uuid and the providers below it
RECURSIVE Descendants(_, _, _)
Descendants(tree, S, n) ==
    IF n = 0 THEN S
    ELSE Descendants(tree,
                     S \cup { u \in DOMAIN tree : tree[u].parent \in S },
                     n - 1)
Subtree(tree, uuid) == Descendants(tree, {uuid}, Cardinality(DOMAIN tree))

remove(tree, uuid) ==
    [u \in (DOMAIN tree) \ Subtree(tree, uuid) |-> tree[u]]

update_inventory(tree, uuid, inventory, generation) ==
    [tree EXCEPT ![uuid].inventory = inventory,
                 ![uuid].generation = generation]

has_inventory(tree, uuid) == tree[uuid].inventory # <<>>

has_inventory_changed(tree, uuid, inventory) ==
    ContentOf(tree[uuid].inventory) # ContentOf(inventory)

update_aggregates(tree, uuid, aggregates, generation) ==
    [tree EXCEPT ![uuid].aggregates = aggregates,
                 ![uuid].generation =
                     IF generation = NoGen THEN @ ELSE generation]

update_traits(tree, uuid, traits, generation) ==
    [tree EXCEPT ![uuid].traits = traits,
                 ![uuid].generation =
                     IF generation = NoGen THEN @ ELSE generation]

VARIABLES
    r_exists,      \* placement: the provider has a record
    r_gen,         \* placement: its generation
    r_inv,         \* placement: its inventory
    r_aggs,        \* placement: its aggregates
    r_classes,     \* placement: the custom resource classes registered
    provider_tree, \* self._provider_tree
    association_refresh_time,  \* self.association_refresh_time
    nothers,       \* placement: the changes the other actors have made
    now,           \* time.time()
    pc,            \* "idle", the HTTP call the running call stands at, "done"
    call,          \* the running call
    loc,           \* its arguments and local variables
    calls,         \* the HTTP calls it has made, by kind
    result,        \* "pending", or what the call returned or raised
    prev,          \* the call that returned before this one
    ncalls         \* how many calls have begun

remoteVars == <<r_exists, r_gen, r_inv, r_aggs, r_classes, nothers>>
cacheVars == <<provider_tree, association_refresh_time>>
callVars == <<pc, call, loc, calls, result, prev, ncalls>>
invVars == <<remoteVars, cacheVars, now, callVars>>

NoCalls ==
    [get_rp |-> 0, post_rp |-> 0, get_inv |-> 0, put_inv |-> 0,
     delete_inv |-> 0]

\* aggs = None
NoAggs == {"None"}

NoLocals ==
    [uuid |-> "none", inv_data |-> <<>>, caller |-> "none",
     cached |-> FALSE, post |-> "none", rp_from |-> "none",
     generation |-> NoGen, force |-> FALSE, aggs |-> NoAggs, todo |-> <<>>,
     classes |-> <<>>, attempt |-> 0, failed |-> 0, gen0 |-> NoGen, compared |-> "no", cur_gen |-> NoGen,
     status |-> 0, conflicts |-> 0, sent |-> NoGen, overwrote |-> FALSE, text |-> {}, in_use |-> {}, updated |-> "none",
     had_inventory |-> "unknown", start |-> <<>>, fetched |-> {},
     rc |-> [put |-> -1, get |-> -1, post |-> -1],
     traits |-> {}, missing |-> {}, parent |-> "none",
     tr |-> [get |-> -1, existing |-> {}, puts |-> 0, created |-> {},
             set |-> -1, sent |-> NoGen, raised |-> "none"],
     before |-> [tree |-> <<>>, times |-> <<>>]]

NoPrev == [call |-> "none", created |-> FALSE]

\* no call is running
CallIdle ==
    /\ pc = "idle"
    /\ call = "none"
    /\ loc = NoLocals
    /\ calls = NoCalls
    /\ result = "pending"

\* __init__ (lines 261-269), the placement service knowing the sharing
\* provider and not yet the compute node, which is in no aggregate
InvInit ==
    /\ r_exists = [u \in CachedProviders |-> u = Sharing]
    /\ r_gen = [u \in CachedProviders |-> 0]
    /\ r_inv = [u \in CachedProviders |-> <<>>]
    /\ r_aggs = [u \in CachedProviders |->
                    IF u = Sharing THEN Aggregates ELSE {}]
    /\ r_classes = {}
    /\ nothers = 0
    /\ provider_tree = <<>>
    /\ association_refresh_time = <<>>
    /\ now = StartTime
    /\ CallIdle
    /\ prev = NoPrev
    /\ ncalls = 0

\* the cache is not part of the run
InvIdle ==
    /\ r_exists = <<>>
    /\ r_gen = <<>>
    /\ r_inv = <<>>
    /\ r_aggs = <<>>
    /\ r_classes = {}
    /\ nothers = 0
    /\ provider_tree = <<>>
    /\ association_refresh_time = <<>>
    /\ now = 0
    /\ CallIdle
    /\ prev = NoPrev
    /\ ncalls = 0

(***************************************************************************)
(* The other actors.  A change they make once the call has returned is    *)
(* the same change made before the next call, so they act while pc is not  *)
(* "done".                                                                 *)
(***************************************************************************)
\* another writer changes the inventory of the compute node's provider:
\* the placement service raises the generation
OtherWriter ==
    /\ pc # "done"
    /\ r_exists[Node]
    /\ nothers < MaxOthers
    /\ nothers' = nothers + 1
    /\ \E inv \in RemoteInventories :
          r_inv' = [r_inv EXCEPT ![Node] = inv]
    /\ r_gen' = [r_gen EXCEPT ![Node] = @ + 1]
    /\ UNCHANGED <<r_exists, r_aggs, r_classes, cacheVars, now, callVars>>

\* another actor deletes the compute node's provider
OtherDeleter ==
    /\ pc # "done"
    /\ r_exists[Node]
    /\ nothers < MaxOthers
    /\ nothers' = nothers + 1
    /\ r_exists' = [r_exists EXCEPT ![Node] = FALSE]
    /\ r_gen' = [r_gen EXCEPT ![Node] = 0]
    /\ r_inv' = [r_inv EXCEPT ![Node] = <<>>]
    /\ UNCHANGED <<r_aggs, r_classes, cacheVars, now, callVars>>

\* time passes between the calls
Tick ==
    /\ pc = "idle"
    /\ now < StartTime + MaxTicks * TickSeconds
    /\ now' = now + TickSeconds
    /\ UNCHANGED <<remoteVars, cacheVars, callVars>>

(***************************************************************************)
(* Where a call stands: the cache, the position, the locals and the        *)
(* result.  The operators below take the call from one HTTP call to the    *)
(* next one, through the code between them.                                *)
(***************************************************************************)
Here ==
    [tree |-> provider_tree, times |-> association_refresh_time,
     pc |-> pc, result |-> result, loc |-> loc]

Becomes(m) ==
    /\ provider_tree' = m.tree
    /\ association_refresh_time' = m.times
    /\ pc' = m.pc
    /\ result' = m.result
    /\ loc' = m.loc

Goto(m, label) == [m EXCEPT !.pc = label]

\* the call returns value, or raises it to its caller
Done(m, value) == [m EXCEPT !.pc = "done", !.result = value]

\* lines 271-282: _create_client starts the cache and the refresh times anew
create_client(m) == [m EXCEPT !.tree = <<>>, !.times = <<>>]

\* lines 60-94: safe_connect swallows the transport error; for
\* EndpointNotFound it calls _create_client
\* a mistake at lines 65-93: every caught failure re-creates the client
safe_connectAlwaysRecreates(m, error) == create_client(m)

safe_connect(m, error) ==
    IF error = "EndpointNotFound" THEN create_client(m) ELSE m

\* what an HTTP call meets: the answer of the placement service to the
\* request, an error status, or a transport error
Answers == {"answer", "error"} \cup TransportErrors

\* lines 735-743
associations_stale(times, uuid) ==
    now - (IF uuid \in DOMAIN times THEN times[uuid] ELSE 0)
        > ASSOCIATION_REFRESH

\* lines 987-990 and 1212-1215: _update_inventory returns value, and its
\* caller returns nothing
UpdateReturns(m, value) == Done([m EXCEPT !.loc.updated = value], "None")

\* a mistake at line 861: one attempt more
AttemptsFour == 3 + 1

\* line 861, for attempt in (1, 2, 3)
Attempts == 3

\* a mistake at lines 862-868: the cache is not asked at the start of the
\* attempt
UpdateInventoryLoopUnchecked(m, n) ==
    IF n > Attempts THEN UpdateReturns(m, "False")
    ELSE Goto([m EXCEPT !.loc.attempt = n,
                        !.loc.compared = "no",
                        !.loc.cur_gen = NoGen,
                        !.loc.status = 0,
                        !.loc.sent = NoGen,
                        !.loc.gen0 = IF exists(m.tree, m.loc.uuid)
                                     THEN m.tree[m.loc.uuid].generation
                                     ELSE NoGen],
              "u_get")

\* lines 859-872, the loop of _update_inventory up to the GET of attempt n
\* (lines 745-753)
UpdateInventoryLoop(m, n) ==
    IF n > Attempts THEN UpdateReturns(m, "False")
    ELSE IF ~exists(m.tree, m.loc.uuid)
         THEN UpdateReturns([m EXCEPT !.loc.attempt = n], "False")
         ELSE Goto([m EXCEPT !.loc.attempt = n,
                             !.loc.compared = "no",
                             !.loc.cur_gen = NoGen,
                             !.loc.status = 0,
                             !.loc.sent = NoGen,
                             !.loc.gen0 = m.tree[m.loc.uuid].generation],
                   "u_get")

\* a mistake at lines 853-855: the cache takes the proposed inventory
\* whatever the answer to the PUT
AttemptFailedStoresProposed(m) ==
    UpdateInventoryLoop(
        [m EXCEPT !.loc.failed = @ + 1,
                  !.tree = IF exists(m.tree, m.loc.uuid)
                           THEN update_inventory(m.tree, m.loc.uuid,
                                    m.loc.inv_data, m.loc.cur_gen)
                           ELSE @],
        m.loc.attempt + 1)

\* a mistake at lines 861-871: the first attempt that fails is made again
AttemptFailedRepeatsOnce(m) ==
    UpdateInventoryLoop([m EXCEPT !.loc.failed = @ + 1],
                        IF m.loc.failed = 0 THEN m.loc.attempt
                        ELSE m.loc.attempt + 1)

\* lines 868-871: the attempt returned False
AttemptFailed(m) ==
    UpdateInventoryLoop([m EXCEPT !.loc.failed = @ + 1], m.loc.attempt + 1)

\* _delete_inventory begins: what the cache reports, and the cache and
\* the refresh times the call found
DeleteBegins(m) ==
    [m EXCEPT !.loc.had_inventory =
                  IF has_inventory(m.tree, m.loc.uuid) THEN "yes" ELSE "no",
              !.loc.before = [tree |-> m.tree, times |-> m.times]]

\* a mistake at line 882: the cache is not asked
DeleteInventoryStartAlwaysFetches(m) ==
    IF ~exists(m.tree, m.loc.uuid) THEN Done(m, "ValueError")
    ELSE Goto(DeleteBegins(m), "d_get")

\* lines 874-884, _delete_inventory up to its GET
DeleteInventoryStart(m) ==
    IF ~exists(m.tree, m.loc.uuid) THEN Done(m, "ValueError")
    ELSE IF ~has_inventory(m.tree, m.loc.uuid)
         THEN Done(DeleteBegins(m), "None")
         ELSE Goto(DeleteBegins(m), "d_get")

\* lines 987-990
InventoryStep(m) ==
    IF m.loc.inv_data # <<>>
    THEN UpdateInventoryLoop(m, 1)
    ELSE DeleteInventoryStart(m)

\* lines 983-985: the next custom class is ensured, or the inventory is set
ClassLoop(m) ==
    IF m.loc.classes = <<>> THEN InventoryStep(m)
    ELSE Goto([m EXCEPT !.loc.rc = NoLocals.rc], "c_put")

\* _ensure_resource_class has returned, the name or None
ClassEnsured(m) == ClassLoop([m EXCEPT !.loc.classes = Tail(@)])

\* _ensure_resource_class returns value: to the test that called it, or
\* to set_inventory_for_provider, which drops the value (lines 983-985)
ClassReturns(m, value) ==
    IF m.loc.caller = "_ensure_resource_class" THEN Done(m, value)
    ELSE ClassEnsured(m)

\* a mistake at lines 1183-1188: the conflict is taken for a failure
ClassPostedConflictFails(m, status) ==
    IF 200 <= status /\ status < 300
    THEN ClassReturns(m, Head(m.loc.classes))
    ELSE Done(m, "InvalidResourceClass")

\* lines 1178-1198 and 1152-1153: what _create_resource_class and its caller
\* do with the status of the POST
ClassPosted(m, status) ==
    IF (200 <= status /\ status < 300) \/ status = 409
    THEN ClassReturns(m, Head(m.loc.classes))
    ELSE Done(m, "InvalidResourceClass")

\* lines 1148-1164: what _get_or_create_resource_class does with the status
\* of the GET
ClassFetched(m, status) ==
    CASE 200 <= status /\ status < 300 -> ClassReturns(m, Head(m.loc.classes))
      [] status = 404 -> Goto(m, "c_post")
      [] OTHER -> ClassReturns(m, "None")

\* lines 1117-1138: what _ensure_resource_class does with the status of
\* the PUT
ClassPut(m, status) ==
    CASE 200 <= status /\ status < 300 -> ClassReturns(m, Head(m.loc.classes))
      [] status = 406 -> Goto(m, "c_get")
      [] OTHER -> Done(m, "InvalidResourceClass")

\* _ensure_resource_provider returns to its caller: the test (itself),
\* set_inventory_for_provider (lines 981-990) or the attempt that met a
\* conflict (lines 812-815)
EnsureReturns(m) ==
    CASE m.loc.caller = "_ensure_resource_provider" ->
             Done(m, m.loc.uuid)
      [] m.loc.caller = "set_inventory_for_provider" ->
             ClassLoop([m EXCEPT
                           !.loc.classes = CustomClassesOf(m.loc.inv_data)])
      [] m.loc.caller = "_update_inventory_attempt" ->
             AttemptFailed(
                 [m EXCEPT !.loc.caller = "set_inventory_for_provider"])

\* line 733, the end of the outer _refresh_associations
RefreshEnd(m) ==
    EnsureReturns([m EXCEPT !.times = (m.loc.uuid :> now) @@ m.times,
                            !.loc.generation = NoGen,
                            !.loc.force = FALSE,
                            !.loc.aggs = NoAggs])

\* lines 716-732: the loop over the providers of the aggregates, up to the
\* first one whose associations are fetched
RECURSIVE SharingLoop(_)
SharingLoop(m) ==
    IF m.loc.todo = <<>> THEN RefreshEnd(m)
    ELSE LET rp == Head(m.loc.todo)
             m1 == IF exists(m.tree, rp.uuid) THEN m
                   ELSE [m EXCEPT !.tree =
                            new_root(m.tree, rp.uuid, rp.generation)]
         IN  IF m.loc.force \/ associations_stale(m1.times, rp.uuid)
             THEN Goto(m1, "s_aggs")
             ELSE SharingLoop([m1 EXCEPT !.loc.todo = Tail(@)])

\* a mistake at line 692: the refresh does not ask whether it is due
RefreshStartAlways(m, generation, force) ==
    Goto([m EXCEPT !.loc.generation = generation,
                   !.loc.force = force], "r_aggs")

\* lines 692-694: _refresh_associations up to its first GET
RefreshStart(m, generation, force) ==
    IF force \/ associations_stale(m.times, m.loc.uuid)
    THEN Goto([m EXCEPT !.loc.generation = generation,
                        !.loc.force = force], "r_aggs")
    ELSE EnsureReturns(m)

\* a mistake at line 617: the cache is not asked
EnsureStartUncached(m) == Goto(m, "e_get")

\* lines 617-623
EnsureStart(m) ==
    IF exists(m.tree, m.loc.uuid)
    THEN RefreshStart([m EXCEPT !.loc.cached = TRUE, !.loc.post = "none"],
                      NoGen, FALSE)
    ELSE Goto([m EXCEPT !.loc.post = "none"], "e_get")

\* lines 627-643: the record found or created goes into the cache, and the
\* associations are refreshed by force
Inserted(m, generation, from) ==
    IF m.loc.parent = "none"
    THEN RefreshStart([m EXCEPT
                          !.tree = new_root(m.tree, m.loc.uuid, generation),
                          !.loc.rp_from = from],
                      generation, TRUE)
    ELSE IF ~exists(m.tree, m.loc.parent)
         THEN Done(m, "ValueError")
         ELSE RefreshStart([m EXCEPT
                               !.tree = new_child(m.tree, m.loc.parent,
                                                  m.loc.uuid, generation),
                               !.loc.rp_from = from],
                           generation, TRUE)

Counted(kind) == calls' = [calls EXCEPT ![kind] = @ + 1]

(***************************************************************************)
(* _ensure_resource_provider and _refresh_associations, HTTP call by HTTP  *)
(* call.                                                                   *)
(***************************************************************************)
CallEnsureResourceProvider ==
    /\ pc = "idle"
    /\ ncalls < MaxCalls
    /\ ncalls' = ncalls + 1
    /\ call' = "_ensure_resource_provider"
    /\ calls' = NoCalls
    /\ Becomes(EnsureStart([Here EXCEPT
           !.loc.uuid = Node,
           !.loc.caller = "_ensure_resource_provider"]))
    /\ UNCHANGED <<remoteVars, now, prev>>

\* lines 429-458, called at line 623
GetResourceProvider ==
    /\ pc = "e_get"
    /\ Counted("get_rp")
    /\ \E o \in Answers :
          Becomes(CASE o = "answer" ->
                         IF r_exists[loc.uuid]
                         THEN Inserted(Here, r_gen[loc.uuid], "fetched")
                         ELSE Goto(Here, "e_post")
                    [] o = "error" ->
                         Done(Here, "ResourceProviderRetrievalFailed")
                    [] OTHER -> Goto(safe_connect(Here, o), "e_post"))
    /\ UNCHANGED <<remoteVars, now, call, prev, ncalls>>

\* the status of POST /resource_providers: 409 when the uuid or the name
\* is taken
CreateStatus(o, uuid) ==
    CASE o = "name_conflict" -> 409
      [] o = "error" -> 500
      [] o = "answer" /\ r_exists[uuid] -> 409
      [] o = "answer" -> 201
      [] OTHER -> 0

\* what the POST met, as lines 545-590 tell it apart
PostOutcome(status, name_conflict) ==
    CASE status = 201 -> "created"
      [] status = 409 /\ name_conflict -> "name_conflict"
      [] status = 409 -> "uuid_conflict"
      [] status = 0 -> "raised"
      [] OTHER -> "error"

\* a mistake at line 566: the text of the 409 is not looked at
CreateAnsweredAnyConflictRefetches(m, status, name_conflict) ==
    CASE status = 201 -> Inserted(m, 0, "created")
      [] status = 409 -> Goto(m, "e_reget")
      [] OTHER -> Done(m, "ResourceProviderCreationFailed")

\* lines 545-590: what _create_resource_provider does with the answer
CreateAnswered(m, status, name_conflict) ==
    CASE status = 201 -> Inserted(m, 0, "created")
      [] status = 409 /\ ~name_conflict -> Goto(m, "e_reget")
      [] OTHER -> Done(m, "ResourceProviderCreationFailed")

\* lines 523-590, called at line 625
CreateResourceProvider ==
    /\ pc = "e_post"
    /\ Counted("post_rp")
    /\ \E o \in Answers \cup {"name_conflict"} :
          LET status == CreateStatus(o, loc.uuid)
              m == [Here EXCEPT !.loc.post =
                       PostOutcome(status, o = "name_conflict")]
          IN  /\ IF status = 201
                 THEN /\ r_exists' = [r_exists EXCEPT ![loc.uuid] = TRUE]
                      /\ r_gen' = [r_gen EXCEPT ![loc.uuid] = 0]
                      /\ r_inv' = [r_inv EXCEPT ![loc.uuid] = <<>>]
                 ELSE UNCHANGED <<r_exists, r_gen, r_inv>>
              /\ Becomes(IF status = 0
                         THEN Done(safe_connect(m, o), "TypeError")
                         ELSE CreateAnswered(m, status,
                                             o = "name_conflict"))
    /\ UNCHANGED <<r_aggs, r_classes, nothers, now, call, prev, ncalls>>

\* line 574: the record another thread created is fetched
GetResourceProviderAgain ==
    /\ pc = "e_reget"
    /\ Counted("get_rp")
    /\ \E o \in Answers :
          Becomes(CASE o = "answer" ->
                         IF r_exists[loc.uuid]
                         THEN Inserted(Here, r_gen[loc.uuid], "refetched")
                         ELSE Done(Here, "TypeError")
                    [] o = "error" ->
                         Done(Here, "ResourceProviderRetrievalFailed")
                    [] OTHER -> Done(safe_connect(Here, o), "TypeError"))
    /\ UNCHANGED <<remoteVars, now, call, prev, ncalls>>

\* lines 365-398, called at line 694, and lines 701-702
GetProviderAggregates ==
    /\ pc = "r_aggs"
    /\ UNCHANGED calls
    /\ \E o \in Answers :
          Becomes(CASE o = "answer" /\ r_exists[loc.uuid] ->
                         IF ~exists(provider_tree, loc.uuid)
                         THEN Done(Here, "ValueError")
                         ELSE Goto([Here EXCEPT
                                  !.tree = update_aggregates(provider_tree,
                                      loc.uuid, r_aggs[loc.uuid],
                                      loc.generation),
                                  !.loc.aggs = r_aggs[loc.uuid]], "r_traits")
                    [] o \in TransportErrors ->
                         Goto(safe_connect(Here, o), "r_traits")
                    [] OTHER -> Goto(Here, "r_traits"))
    /\ UNCHANGED <<remoteVars, now, call, prev, ncalls>>

\* lines 400-427, called at line 705, and lines 712-718
GetProviderTraits ==
    /\ pc = "r_traits"
    /\ UNCHANGED calls
    /\ \E o \in Answers :
          LET sharing == IF loc.aggs = NoAggs \/ loc.aggs = {}
                         THEN "none" ELSE "r_sharing"
              m == CASE o = "answer" /\ r_exists[loc.uuid] ->
                         IF ~exists(provider_tree, loc.uuid)
                         THEN Done(Here, "ValueError")
                         ELSE Goto([Here EXCEPT
                                  !.tree = update_traits(provider_tree,
                                      loc.uuid, RemoteTraits(loc.uuid),
                                      loc.generation)], sharing)
                     [] o \in TransportErrors ->
                         Goto(safe_connect(Here, o), sharing)
                     [] OTHER -> Goto(Here, sharing)
          IN  Becomes(IF m.pc = "none" THEN RefreshEnd(m) ELSE m)
    /\ UNCHANGED <<remoteVars, now, call, prev, ncalls>>

\* the providers of the aggregates, as the placement service lists them
ProvidersIn(aggs) ==
    LET member(u) == /\ u \in DOMAIN r_exists
                     /\ r_exists[u]
                     /\ r_aggs[u] \cap aggs # {}
        listed == SelectSeq(<<Node, Sharing, Far>>, member)
    IN  [i \in 1..Len(listed) |->
            [uuid |-> listed[i], generation |-> r_gen[listed[i]]]]

\* lines 460-491, called at line 718
GetProvidersInAggregates ==
    /\ pc = "r_sharing"
    /\ UNCHANGED calls
    /\ \E o \in Answers :
          Becomes(CASE o = "answer" ->
                         SharingLoop([Here EXCEPT
                             !.loc.todo = ProvidersIn(loc.aggs)])
                    [] o = "error" ->
                         Done(Here, "ResourceProviderRetrievalFailed")
                    [] OTHER -> Done(safe_connect(Here, o), "TypeError"))
    /\ UNCHANGED <<remoteVars, now, call, prev, ncalls>>

\* line 731, the inner _refresh_associations: lines 694-702 for the
\* provider at the head of the list
GetSharingAggregates ==
    /\ pc = "s_aggs"
    /\ UNCHANGED calls
    /\ \E o \in Answers :
          LET rp == Head(loc.todo).uuid
          IN  Becomes(CASE o = "answer" /\ r_exists[rp] ->
                         IF ~exists(provider_tree, rp)
                         THEN Done(Here, "ValueError")
                         ELSE Goto([Here EXCEPT
                                  !.tree = update_aggregates(provider_tree,
                                      rp, r_aggs[rp], NoGen)], "s_traits")
                    [] o \in TransportErrors ->
                         Goto(safe_connect(Here, o), "s_traits")
                    [] OTHER -> Goto(Here, "s_traits"))
    /\ UNCHANGED <<remoteVars, now, call, prev, ncalls>>

\* a mistake at line 732: the inner refresh lists the providers of the
\* aggregates of its provider as the outer one does
GetSharingTraitsRefreshSharing ==
    /\ pc = "s_traits"
    /\ UNCHANGED calls
    /\ \E o \in Answers :
          LET rp == Head(loc.todo).uuid
              m == CASE o = "answer" /\ r_exists[rp] ->
                         IF ~exists(provider_tree, rp)
                         THEN Done(Here, "ValueError")
                         ELSE [Here EXCEPT
                                  !.tree = update_traits(provider_tree,
                                      rp, RemoteTraits(rp), NoGen)]
                     [] o \in TransportErrors -> safe_connect(Here, o)
                     [] OTHER -> Here
              unknown(r) == ~exists(m.tree, r.uuid)
              more == IF exists(m.tree, rp)
                      THEN SelectSeq(ProvidersIn(m.tree[rp].aggregates),
                                     unknown)
                      ELSE <<>>
          IN  Becomes(IF m.pc = "done" THEN m
                      ELSE SharingLoop([m EXCEPT
                               !.times = (rp :> now) @@ m.times,
                               !.loc.todo = Tail(@) \o more]))
    /\ UNCHANGED <<remoteVars, now, call, prev, ncalls>>

\* lines 705-713 and 733 of the inner _refresh_associations, then the next
\* provider of the list
GetSharingTraits ==
    /\ pc = "s_traits"
    /\ UNCHANGED calls
    /\ \E o \in Answers :
          LET rp == Head(loc.todo).uuid
              m == CASE o = "answer" /\ r_exists[rp] ->
                         IF ~exists(provider_tree, rp)
                         THEN Done(Here, "ValueError")
                         ELSE [Here EXCEPT
                                  !.tree = update_traits(provider_tree,
                                      rp, RemoteTraits(rp), NoGen)]
                     [] o \in TransportErrors -> safe_connect(Here, o)
                     [] OTHER -> Here
          IN  Becomes(IF m.pc = "done" THEN m
                      ELSE SharingLoop([m EXCEPT
                               !.times = (rp :> now) @@ m.times,
                               !.loc.todo = Tail(@)]))
    /\ UNCHANGED <<remoteVars, now, call, prev, ncalls>>

(***************************************************************************)
(* set_inventory_for_provider (lines 961-990; update_compute_node, lines   *)
(* 1200-1215, has the same steps), with _update_inventory and              *)
(* _delete_inventory.                                                      *)
(***************************************************************************)
\* the inventory dicts a caller proposes
ProposedInventories == Inventories

\* lines 961-982
SetInventoryForProvider(proposed) ==
    /\ pc = "idle"
    /\ ncalls < MaxCalls
    /\ ncalls' = ncalls + 1
    /\ call' = "set_inventory_for_provider"
    /\ calls' = NoCalls
    /\ \E inv_data \in proposed :
          Becomes(EnsureStart([Here EXCEPT
              !.loc.uuid = Node,
              !.loc.inv_data = inv_data,
              !.loc.start = provider_tree,
              !.loc.caller = "set_inventory_for_provider"]))
    /\ UNCHANGED <<remoteVars, now, prev>>

CallSetInventoryForProvider == SetInventoryForProvider(ProposedInventories)

\* the caller is a virt driver with a custom resource class
CallSetInventoryWithCustomClass == SetInventoryForProvider(CustomInventories)

\* lines 1200-1215: update_compute_node takes the same steps with the
\* inventory of the compute node, which is empty or has its VCPUs
CallUpdateComputeNode ==
    SetInventoryForProvider({<<>>, <<Inventory(VCPU, 1)>>})

\* the placement service knowing the compute node's provider and the
\* sharing provider, both in the aggregate, and a provider in another
\* aggregate of the sharing provider; the cache is empty
ShareInit ==
    /\ r_exists = [u \in CachedProviders \cup {Far} |-> TRUE]
    /\ r_gen = [u \in CachedProviders \cup {Far} |-> 0]
    /\ r_inv = [u \in CachedProviders \cup {Far} |-> <<>>]
    /\ r_aggs = [u \in CachedProviders \cup {Far} |->
                    CASE u = Node -> Aggregates
                      [] u = Sharing -> Aggregates \cup FarAggregates
                      [] OTHER -> FarAggregates]
    /\ r_classes = {}
    /\ nothers = 0
    /\ provider_tree = <<>>
    /\ association_refresh_time = <<>>
    /\ now = StartTime
    /\ CallIdle
    /\ prev = NoPrev
    /\ ncalls = 0

\* a provider the caller puts under the compute node's provider
Child == "B"

\* the client with the compute node's provider cached and refreshed, and
\* the placement service knowing that provider and not the child
TreeInit ==
    /\ r_exists = [u \in {Node, Child} |-> u = Node]
    /\ r_gen = [u \in {Node, Child} |-> 0]
    /\ r_inv = [u \in {Node, Child} |-> <<>>]
    /\ r_aggs = [u \in {Node, Child} |-> {}]
    /\ r_classes = {}
    /\ nothers = 0
    /\ provider_tree = new_root(<<>>, Node, 0)
    /\ association_refresh_time = (Node :> StartTime)
    /\ now = StartTime
    /\ CallIdle
    /\ prev = NoPrev
    /\ ncalls = 0

\* lines 961-982, called with parent_provider_uuid
CallSetInventoryForChild ==
    /\ pc = "idle"
    /\ ncalls < MaxCalls
    /\ ncalls' = ncalls + 1
    /\ call' = "set_inventory_for_provider"
    /\ calls' = NoCalls
    /\ \E inv_data \in ProposedInventories :
          Becomes(EnsureStart([Here EXCEPT
              !.loc.uuid = Child,
              !.loc.parent = Node,
              !.loc.inv_data = inv_data,
              !.loc.start = provider_tree,
              !.loc.caller = "set_inventory_for_provider"]))
    /\ UNCHANGED <<remoteVars, now, prev>>

\* another writer changes the inventory of the child provider
OtherChildWriter ==
    /\ pc # "done"
    /\ r_exists[Child]
    /\ nothers < MaxOthers
    /\ nothers' = nothers + 1
    /\ \E inv \in RemoteInventories :
          r_inv' = [r_inv EXCEPT ![Child] = inv]
    /\ r_gen' = [r_gen EXCEPT ![Child] = @ + 1]
    /\ UNCHANGED <<r_exists, r_aggs, r_classes, cacheVars, now, callVars>>

\* the test calls _ensure_resource_class
CallEnsureResourceClass ==
    /\ pc = "idle"
    /\ ncalls < MaxCalls
    /\ ncalls' = ncalls + 1
    /\ call' = "_ensure_resource_class"
    /\ calls' = NoCalls
    /\ \E name \in CustomClasses :
          Becomes(Goto([Here EXCEPT !.loc.caller = "_ensure_resource_class",
                                    !.loc.classes = <<name>>], "c_put"))
    /\ UNCHANGED <<remoteVars, now, prev>>

\* the status of PUT /resource_classes/{name}, version 1.7
ClassPutStatus(o) ==
    CASE o = "answer" -> 204
      [] o = "unsupported" -> 406
      [] o = "error" -> 400
      [] OTHER -> 0

\* the status of GET /resource_classes/{name}, version 1.2
ClassGetStatus(o, name) ==
    CASE o = "answer" /\ name \in r_classes -> 200
      [] o = "answer" -> 404
      [] o = "error" -> 500
      [] OTHER -> 0

\* the status of POST /resource_classes, version 1.2: 409 when another actor
\* has created the class since the GET
ClassPostStatus(o, name) ==
    CASE o = "answer" /\ name \in r_classes -> 409
      [] o = "answer" -> 201
      [] o = "error" -> 400
      [] OTHER -> 0

\* another actor registers a custom resource class
OtherRegistrar ==
    /\ pc # "done"
    /\ \E name \in CustomClasses \ r_classes :
          r_classes' = r_classes \cup {name}
    /\ UNCHANGED <<r_exists, r_gen, r_inv, r_aggs, nothers, cacheVars, now,
                   callVars>>

\* lines 1103-1138: PUT /resource_classes/{name}
EnsureResourceClass ==
    /\ pc = "c_put"
    /\ \E o \in Answers \cup {"unsupported"} :
          LET name == Head(loc.classes)
              status == ClassPutStatus(o)
              m == [Here EXCEPT !.loc.rc.put = status]
          IN  /\ r_classes' = IF status = 204 THEN r_classes \cup {name}
                              ELSE r_classes
              /\ Becomes(IF status = 0
                         THEN ClassReturns(safe_connect(m, o), "None")
                         ELSE ClassPut(m, status))
    /\ UNCHANGED <<r_exists, r_gen, r_inv, r_aggs, nothers, now, call,
                   calls, prev, ncalls>>

\* lines 1140-1164: GET /resource_classes/{name}
GetResourceClass ==
    /\ pc = "c_get"
    /\ \E o \in Answers :
          LET status == ClassGetStatus(o, Head(loc.classes))
              m == [Here EXCEPT !.loc.rc.get = status]
          IN  Becomes(IF status = 0
                      THEN ClassReturns(safe_connect(m, o), "None")
                      ELSE ClassFetched(m, status))
    /\ UNCHANGED <<remoteVars, now, call, calls, prev, ncalls>>

\* lines 1166-1198: POST /resource_classes
CreateResourceClass ==
    /\ pc = "c_post"
    /\ \E o \in Answers :
          LET name == Head(loc.classes)
              status == ClassPostStatus(o, name)
              m == [Here EXCEPT !.loc.rc.post = status]
          IN  /\ r_classes' = IF status \in {201, 409}
                              THEN r_classes \cup {name}
                              ELSE r_classes
              /\ Becomes(IF status = 0
                         THEN ClassReturns(safe_connect(m, o), "None")
                         ELSE ClassPosted(m, status))
    /\ UNCHANGED <<r_exists, r_gen, r_inv, r_aggs, nothers, now, call,
                   calls, prev, ncalls>>

\* lines 663-671: the cache takes what the placement service answered, when
\* the generation answered is not 0
RefreshedInventory(m, cur_gen, curr_inv) ==
    [m EXCEPT !.tree = IF cur_gen # 0
                       THEN update_inventory(m.tree, m.loc.uuid, curr_inv,
                                             cur_gen)
                       ELSE @,
              !.loc.fetched = IF cur_gen # 0
                              THEN @ \cup {ContentOf(curr_inv)}
                              ELSE @,
              !.loc.cur_gen = cur_gen]

\* line 763: what the comparison found
Comparison(m) ==
    [m EXCEPT !.loc.compared =
        IF has_inventory_changed(m.tree, m.loc.uuid, m.loc.inv_data)
        THEN "changed" ELSE "same"]

\* a mistake at line 763: the PUT is made whatever the cache holds
ComparedAlwaysPuts(m) == Goto(Comparison(m), "u_put")

\* lines 763-771
Compared(m) ==
    IF ~has_inventory_changed(m.tree, m.loc.uuid, m.loc.inv_data)
    THEN UpdateReturns(Comparison(m), "True")
    ELSE Goto(Comparison(m), "u_put")

\* lines 756-761
GetInventory ==
    /\ pc = "u_get"
    /\ Counted("get_inv")
    /\ \E o \in Answers :
          Becomes(CASE o = "answer" /\ r_exists[loc.uuid] ->
                         Compared(RefreshedInventory(Here, r_gen[loc.uuid],
                                                     r_inv[loc.uuid]))
                    [] o \in TransportErrors ->
                         UpdateReturns(safe_connect(Here, o), "None")
                    [] OTHER -> AttemptFailed(Here))
    /\ UNCHANGED <<remoteVars, now, call, prev, ncalls>>

\* the request carries no resource_provider_generation
Ungenerated == NoGen - 1

\* a write of the inventory was sent with this generation and answered
\* with this status; the placement service overwrote a change the call had
\* not seen when it took a write whose sender knew another generation
Sent(m, generation, status) ==
    [m EXCEPT !.loc.status = status,
              !.loc.sent = generation,
              !.loc.overwrote = /\ status \in {200, 204}
                                /\ r_gen[m.loc.uuid] # m.loc.cur_gen]

\* the resource classes an inventory holds
ClassesOf(inv) == { inv[i].rc : i \in 1..Len(inv) }

\* the placement service refuses to drop a class that has allocations
MayBeInUse(uuid, inv) ==
    r_exists[uuid] /\ ClassesOf(r_inv[uuid]) \ ClassesOf(inv) # {}

\* the status of PUT /resource_providers/{uuid}/inventories
PutStatus(o, uuid, generation, inv) ==
    CASE o = "in_use" -> 409
      [] o = "error" -> 500
      [] o = "answer" /\ ~r_exists[uuid] -> 404
      [] o = "answer" /\ r_gen[uuid] # generation -> 409
      [] o = "answer" /\ ClassesOf(inv) \ (ResourceClasses \cup r_classes) # {}
           -> 400
      [] o = "answer" -> 200
      [] OTHER -> 0

\* what the placement service holds after the write
Written(status, uuid, inv) ==
    IF status \in {200, 204}
    THEN /\ r_gen' = [r_gen EXCEPT ![uuid] = @ + 1]
         /\ r_inv' = [r_inv EXCEPT ![uuid] = Canon(inv)]
    ELSE UNCHANGED <<r_gen, r_inv>>

\* a mistake at line 855: the cache keeps the generation that was sent
PutSucceededKeepsGeneration(m, new_gen) ==
    UpdateReturns([m EXCEPT !.tree = update_inventory(m.tree, m.loc.uuid,
                                         m.loc.inv_data, m.loc.cur_gen)],
                  "True")

\* lines 853-857
PutSucceeded(m, new_gen) ==
    UpdateReturns([m EXCEPT !.tree = update_inventory(m.tree, m.loc.uuid,
                                         m.loc.inv_data, new_gen)],
                  "True")

\* the classes the text of a 409 names as in use: those the provider holds
\* and the request would drop; none when the conflict is one of generation
InUseText(o, uuid, inv) ==
    IF o = "in_use" THEN ClassesOf(r_inv[uuid]) \ ClassesOf(inv) ELSE {}

\* a mistake at line 817: the entry the service rejected stays in the cache
ConflictKeepsEntry(m) ==
    EnsureStart([m EXCEPT !.loc.caller = "_update_inventory_attempt"])

\* a mistake at line 817: the entry alone is dropped, not what is below it
ConflictDropsEntryOnly(m) ==
    EnsureStart([m EXCEPT !.tree = [u \in DOMAIN m.tree \ {m.loc.uuid} |->
                                       m.tree[u]],
                          !.loc.parent = "none",
                          !.loc.caller = "_update_inventory_attempt"])

\* lines 812-815: the cache entry is dropped and the provider ensured
\* again, and the attempt returns False
ConflictInvalidates(m) ==
    EnsureStart([m EXCEPT !.tree = remove(m.tree, m.loc.uuid),
                          !.loc.parent = "none",
                          !.loc.caller = "_update_inventory_attempt"])

\* a mistake at lines 807-813: the text of the 409 is not looked at
PutConflictIgnoresText(m) == ConflictInvalidates(m)

\* lines 772-815: the PUT was answered with 409
PutConflict(m) ==
    IF m.loc.text # {}
    THEN Done([m EXCEPT !.loc.in_use = m.loc.text], "InventoryInUse")
    ELSE ConflictInvalidates([m EXCEPT !.loc.conflicts = @ + 1])

\* lines 773-857
PutInventory ==
    /\ pc = "u_put"
    /\ Counted("put_inv")
    /\ \E o \in Answers \cup {"in_use"} :
          /\ o = "in_use" => MayBeInUse(loc.uuid, loc.inv_data)
          /\ LET status == PutStatus(o, loc.uuid, loc.cur_gen, loc.inv_data)
                 m == [Sent(Here, loc.cur_gen, status) EXCEPT
                          !.loc.text = InUseText(o, loc.uuid, loc.inv_data)]
             IN  /\ Written(status, loc.uuid, loc.inv_data)
                 /\ Becomes(
                      CASE status = 0 ->
                             UpdateReturns(safe_connect(m, o), "None")
                        [] status = 409 -> PutConflict(m)
                        [] status = 200 ->
                             PutSucceeded(m, r_gen[loc.uuid] + 1)
                        [] OTHER -> AttemptFailed(m))
    /\ UNCHANGED <<r_exists, r_aggs, r_classes, nothers, now, call, prev, ncalls>>

\* lines 885-890
GetInventoryToDelete ==
    /\ pc = "d_get"
    /\ Counted("get_inv")
    /\ \E o \in Answers :
          Becomes(CASE o = "answer" /\ r_exists[loc.uuid] ->
                         LET m == RefreshedInventory(Here, r_gen[loc.uuid],
                                                     r_inv[loc.uuid])
                         IN  IF r_inv[loc.uuid] = <<>>
                             THEN Done(m, "None")
                             ELSE Goto(m, "d_delete")
                    [] o \in TransportErrors ->
                         Done(safe_connect(Here, o), "None")
                    [] OTHER -> Done(Here, "AttributeError"))
    /\ UNCHANGED <<remoteVars, now, call, prev, ncalls>>

\* a mistake at line 927: the generation is guessed one too far
DeletedGuessesTwo(m, status, in_use) ==
    CASE status = 204 ->
             Done([m EXCEPT !.tree = update_inventory(m.tree, m.loc.uuid,
                                         <<>>, m.loc.cur_gen + 2)], "None")
      [] status = 404 ->
             Done([m EXCEPT
                 !.tree = remove(m.tree, m.loc.uuid),
                 !.times = [u \in (DOMAIN m.times) \ {m.loc.uuid} |->
                               m.times[u]]], "None")
      [] OTHER -> Done(m, "None")

\* a mistake at lines 946-959: a conflict stores the generation the call
\* expects the placement service to have reached
DeletedGuessesOnConflict(m, status, in_use) ==
    CASE status \in {204, 409} ->
             Done([m EXCEPT !.tree = update_inventory(m.tree, m.loc.uuid,
                                         <<>>, m.loc.cur_gen + 1)], "None")
      [] status = 404 ->
             Done([m EXCEPT
                 !.tree = remove(m.tree, m.loc.uuid),
                 !.times = [u \in (DOMAIN m.times) \ {m.loc.uuid} |->
                               m.times[u]]], "None")
      [] OTHER -> Done(m, "None")

\* a mistake at lines 946-955: the conflict that names classes in use is
\* raised, as _update_inventory_attempt does at line 786
DeletedRaisesInUse(m, status, in_use) ==
    CASE status = 204 ->
             Done([m EXCEPT !.tree = update_inventory(m.tree, m.loc.uuid,
                                         <<>>, m.loc.cur_gen + 1)], "None")
      [] status = 404 ->
             Done([m EXCEPT
                 !.tree = remove(m.tree, m.loc.uuid),
                 !.times = [u \in (DOMAIN m.times) \ {m.loc.uuid} |->
                               m.times[u]]], "None")
      [] status = 409 /\ in_use -> Done(m, "InventoryInUse")
      [] OTHER -> Done(m, "None")

\* lines 926-959: what _delete_inventory does with the status of its last
\* request
Deleted(m, status, in_use) ==
    CASE status = 204 ->
             Done([m EXCEPT !.tree = update_inventory(m.tree, m.loc.uuid,
                                         <<>>, m.loc.cur_gen + 1)], "None")
      [] status = 404 ->
             Done([m EXCEPT
                 !.tree = remove(m.tree, m.loc.uuid),
                 !.times = [u \in (DOMAIN m.times) \ {m.loc.uuid} |->
                               m.times[u]]], "None")
      [] OTHER -> Done(m, "None")

\* the status of DELETE /resource_providers/{uuid}/inventories
DeleteStatus(o, uuid) ==
    CASE o = "in_use" -> 409
      [] o = "unsupported" -> 406
      [] o = "error" -> 500
      [] o = "answer" /\ ~r_exists[uuid] -> 404
      [] o = "answer" -> 204
      [] OTHER -> 0

\* lines 897-905
DeleteInventory ==
    /\ pc = "d_delete"
    /\ Counted("delete_inv")
    /\ \E o \in Answers \cup {"in_use", "unsupported"} :
          /\ o = "in_use" => MayBeInUse(loc.uuid, <<>>)
          /\ LET status == DeleteStatus(o, loc.uuid)
                 m == Sent(Here, Ungenerated, status)
             IN  /\ Written(status, loc.uuid, <<>>)
                 /\ Becomes(CASE status = 0 ->
                                   Done(safe_connect(m, o), "None")
                              [] status = 406 -> Goto(m, "d_put")
                              [] OTHER -> Deleted(m, status, o = "in_use"))
    /\ UNCHANGED <<r_exists, r_aggs, r_classes, nothers, now, call, prev, ncalls>>

\* lines 906-925
PutEmptyInventory ==
    /\ pc = "d_put"
    /\ Counted("put_inv")
    /\ \E o \in Answers \cup {"in_use"} :
          /\ o = "in_use" => MayBeInUse(loc.uuid, <<>>)
          /\ LET status == PutStatus(o, loc.uuid, loc.cur_gen, <<>>)
                 m == Sent(Here, loc.cur_gen, status)
             IN  /\ Written(status, loc.uuid, <<>>)
                 /\ Becomes(
                      CASE status = 0 -> Done(safe_connect(m, o), "None")
                        [] status = 200 ->
                             Done([m EXCEPT !.tree =
                                     update_inventory(m.tree, m.loc.uuid,
                                         <<>>, r_gen[loc.uuid] + 1)], "None")
                        [] OTHER -> Deleted(m, status, o = "in_use"))
    /\ UNCHANGED <<r_exists, r_aggs, r_classes, nothers, now, call, prev, ncalls>>

\* the call has returned or raised; the next call may begin
Returns ==
    /\ pc = "done"
    /\ pc' = "idle"
    /\ prev' = IF call = "_ensure_resource_provider" /\ result = loc.uuid
                THEN [call |-> call, created |-> loc.rp_from = "created"]
                ELSE NoPrev
    /\ call' = "none"
    /\ loc' = NoLocals
    /\ calls' = NoCalls
    /\ result' = "pending"
    /\ UNCHANGED <<remoteVars, cacheVars, now, ncalls>>

(***************************************************************************)
(* set_traits_for_provider (lines 1038-1101) and _ensure_traits (lines     *)
(* 992-1036).  loc.tr keeps what the call has met: the status of the GET   *)
(* of the traits and the names it answered, the PUTs of single traits, the *)
(* status of the PUT of the provider's traits with the generation it       *)
(* carried, and the transport error that was swallowed.                    *)
(***************************************************************************)
VARIABLES
    r_traits    \* placement: the traits that exist

traitVars == <<r_traits>>

\* the traits are not part of the run
TraitIdle == r_traits = {}

\* the traits a caller names; the first is a standard trait
TraitNames == {"HW_CPU_X86_AVX", "CUSTOM_FAST", "CUSTOM_SAFE"}

\* the client with the compute node's provider cached and refreshed; the
\* placement service knows the standard trait
TraitsInit ==
    /\ r_traits = {"HW_CPU_X86_AVX"}
    /\ r_exists = [u \in CachedProviders |-> TRUE]
    /\ r_gen = [u \in CachedProviders |-> 0]
    /\ r_inv = [u \in CachedProviders |-> <<>>]
    /\ r_aggs = [u \in CachedProviders |-> {}]
    /\ r_classes = {}
    /\ nothers = 0
    /\ provider_tree = new_root(<<>>, Node, 0)
    /\ association_refresh_time = (Node :> StartTime)
    /\ now = StartTime
    /\ CallIdle
    /\ prev = NoPrev
    /\ ncalls = 0

\* ProviderTree.have_traits_changed
have_traits_changed(tree, uuid, traits) == tree[uuid].traits # traits

\* safe_connect has swallowed the transport error of a request of the
\* traits
SwallowedByTraits(m, error) ==
    [safe_connect(m, error) EXCEPT !.loc.tr.raised = error]

\* _ensure_traits has returned None: to the test that called it, or to
\* set_traits_for_provider, which reads the cached generation (line 1068)
\* and sends its PUT
EnsureTraitsReturns(m) ==
    IF m.loc.caller = "_ensure_traits" THEN Done(m, "None")
    ELSE IF ~exists(m.tree, m.loc.uuid) THEN Done(m, "ValueError")
    ELSE Goto([m EXCEPT !.loc.tr.sent = m.tree[m.loc.uuid].generation],
              "t_set")

\* lines 1020-1025: the next missing trait is created, or the call returns
TraitLoop(m) ==
    IF m.loc.missing = {} THEN EnsureTraitsReturns(m) ELSE Goto(m, "t_put")

\* a mistake at lines 1016-1036: a failed GET takes every trait for missing
TraitsFetchedCreatesAnyway(m, status, existing) ==
    IF status = 200
    THEN TraitLoop([m EXCEPT !.loc.missing = m.loc.traits \ existing,
                             !.loc.tr.existing = existing])
    ELSE TraitLoop([m EXCEPT !.loc.missing = m.loc.traits])

\* lines 1016-1036: what _ensure_traits does with the answer to its GET
TraitsFetched(m, status, existing) ==
    IF status = 200
    THEN TraitLoop([m EXCEPT !.loc.missing = m.loc.traits \ existing,
                             !.loc.tr.existing = existing])
    ELSE Done(m, "TraitRetrievalFailed")

\* lines 1021-1024: what _ensure_traits does with the answer to the PUT of
\* one trait
TraitCreated(m, trait, status) ==
    IF status < 400
    THEN TraitLoop([m EXCEPT !.loc.missing = @ \ {trait},
                             !.loc.tr.created = @ \cup {trait}])
    ELSE Done(m, "TraitCreationFailed")

\* lines 1005-1015: _ensure_traits up to its GET
EnsureTraitsStart(m) ==
    IF m.loc.traits = {} THEN EnsureTraitsReturns(m) ELSE Goto(m, "t_get")

\* lines 1057-1061: set_traits_for_provider up to the first request
SetTraitsStart(m) ==
    IF ~exists(m.tree, m.loc.uuid) THEN Done(m, "ValueError")
    ELSE IF ~have_traits_changed(m.tree, m.loc.uuid, m.loc.traits)
         THEN Done(m, "None")
         ELSE EnsureTraitsStart(m)

\* lines 1075-1101: what set_traits_for_provider does with the answer to
\* its PUT
TraitsSet(m, status, new_gen) ==
    CASE status = 200 ->
             Done([m EXCEPT !.tree = update_traits(m.tree, m.loc.uuid,
                                         m.loc.traits, new_gen)], "None")
      [] status = 409 -> Done(m, "ResourceProviderUpdateConflict")
      [] OTHER -> Done(m, "ResourceProviderUpdateFailed")

CallSetTraitsForProvider ==
    /\ pc = "idle"
    /\ ncalls < MaxCalls
    /\ ncalls' = ncalls + 1
    /\ call' = "set_traits_for_provider"
    /\ calls' = NoCalls
    /\ \E traits \in SUBSET TraitNames :
          Becomes(SetTraitsStart([Here EXCEPT
              !.loc.uuid = Node,
              !.loc.traits = traits,
              !.loc.caller = "set_traits_for_provider",
              !.loc.before = [tree |-> provider_tree,
                              times |-> association_refresh_time]]))
    /\ UNCHANGED <<remoteVars, r_traits, now, prev>>

\* the test calls _ensure_traits
CallEnsureTraits ==
    /\ pc = "idle"
    /\ ncalls < MaxCalls
    /\ ncalls' = ncalls + 1
    /\ call' = "_ensure_traits"
    /\ calls' = NoCalls
    /\ \E traits \in SUBSET TraitNames :
          Becomes(EnsureTraitsStart([Here EXCEPT
              !.loc.traits = traits,
              !.loc.caller = "_ensure_traits",
              !.loc.before = [tree |-> provider_tree,
                              times |-> association_refresh_time]]))
    /\ UNCHANGED <<remoteVars, r_traits, now, prev>>

\* line 1015: GET /traits?name=in:...
GetTraits ==
    /\ pc = "t_get"
    /\ \E o \in Answers :
          LET status == CASE o = "answer" -> 200
                          [] o = "error" -> 500
                          [] OTHER -> 0
              m == [Here EXCEPT !.loc.tr.get = status]
          IN  Becomes(IF status = 0
                      THEN EnsureTraitsReturns(SwallowedByTraits(m, o))
                      ELSE TraitsFetched(m, status,
                                         r_traits \cap loc.traits))
    /\ UNCHANGED <<remoteVars, r_traits, now, call, calls, prev, ncalls>>

\* line 1021: PUT /traits/{trait}, for one of the missing traits
PutTrait ==
    /\ pc = "t_put"
    /\ \E trait \in loc.missing, o \in Answers :
          LET status == CASE o = "answer" /\ trait \in r_traits -> 204
                          [] o = "answer" -> 201
                          [] o = "error" -> 400
                          [] OTHER -> 0
              m == [Here EXCEPT !.loc.tr.puts = @ + 1]
          IN  /\ r_traits' = IF status = 201 THEN r_traits \cup {trait}
                             ELSE r_traits
              /\ Becomes(IF status = 0
                         THEN EnsureTraitsReturns(SwallowedByTraits(m, o))
                         ELSE TraitCreated(m, trait, status))
    /\ UNCHANGED <<remoteVars, now, call, calls, prev, ncalls>>

\* the status of PUT /resource_providers/{uuid}/traits
TraitsPutStatus(o, uuid, generation, traits) ==
    CASE o = "error" -> 500
      [] o = "answer" /\ ~r_exists[uuid] -> 404
      [] o = "answer" /\ r_gen[uuid] # generation -> 409
      [] o = "answer" /\ ~(traits \subseteq r_traits) -> 400
      [] o = "answer" -> 200
      [] OTHER -> 0

\* lines 1063-1101: PUT /resource_providers/{uuid}/traits
PutProviderTraits ==
    /\ pc = "t_set"
    /\ \E o \in Answers :
          LET status == TraitsPutStatus(o, loc.uuid, loc.tr.sent, loc.traits)
              m == [Here EXCEPT !.loc.tr.set = status]
          IN  /\ r_gen' = IF status = 200
                          THEN [r_gen EXCEPT ![loc.uuid] = @ + 1]
                          ELSE r_gen
              /\ Becomes(IF status = 0
                         THEN Done(SwallowedByTraits(m, o), "None")
                         ELSE TraitsSet(m, status, r_gen[loc.uuid] + 1))
    /\ UNCHANGED <<r_exists, r_inv, r_aggs, r_classes, nothers, r_traits,
                   now, call, calls, prev, ncalls>>

(***************************************************************************)
(* delete_allocation_for_instance (lines 1552-1568) and                    *)
(* delete_resource_provider (lines 1586-1626).                             *)
(***************************************************************************)
\* the instances of the compute node
Instances == {"i1", "i2"}
InstanceList == <<"i1", "i2">>

VARIABLES
    d_pc,       \* "idle", "allocation" or "provider" (the DELETE the call
                \* stands at), "done"
    d_op,       \* the running call
    d_todo,     \* the instances whose allocations are still to be deleted
    d_result,   \* "pending", or what the call returned
    d_status,   \* the status its own DELETE was answered with, 0 before
    d_logged,   \* what the call has logged: who logged, and the severity
    r_allocs    \* placement: the instances that have allocations

delVars == <<d_pc, d_op, d_todo, d_result, d_status, d_logged, r_allocs>>

\* no deletion is running
DelIdle ==
    /\ d_pc = "idle"
    /\ d_op = "none"
    /\ d_todo = <<>>
    /\ d_result = "pending"
    /\ d_status = 0
    /\ d_logged = {}
    /\ r_allocs = {}

\* the client at the time of a deletion: the provider of the compute node is
\* cached or not, known to the placement service or not
DelInit ==
    /\ d_pc = "idle"
    /\ d_op = "none"
    /\ d_todo = <<>>
    /\ d_result = "pending"
    /\ d_status = 0
    /\ d_logged = {}
    /\ r_allocs \in SUBSET Instances
    /\ r_exists \in { [u \in CachedProviders |-> u = Sharing \/ e] :
                      e \in BOOLEAN }
    /\ r_gen = [u \in CachedProviders |-> 0]
    /\ r_inv = [u \in CachedProviders |-> <<>>]
    /\ r_aggs = [u \in CachedProviders |->
                    IF u = Sharing THEN Aggregates ELSE {}]
    /\ r_classes = {}
    /\ nothers = 0
    /\ provider_tree \in {<<>>, new_root(<<>>, Node, 0),
                          new_root(new_root(<<>>, Node, 0), Sharing, 0)}
    /\ association_refresh_time \in {<<>>, (Node :> StartTime)}
    /\ now = StartTime
    /\ CallIdle
    /\ prev = NoPrev
    /\ ncalls = 0

\* one line of the log: who wrote it, and its severity
Logged(by, level) == [by |-> by, level |-> level]

\* what a call does with its own logs and result when safe_connect swallows
\* a transport error (lines 60-94): the wrapper logs a warning and returns
\* None
Swallowed(error) ==
    /\ d_logged' = d_logged \cup {Logged("safe_connect", "warning")}
    /\ IF error = "EndpointNotFound"
       THEN provider_tree' = <<>> /\ association_refresh_time' = <<>>
       ELSE UNCHANGED cacheVars

CallDeleteAllocationForInstance ==
    /\ d_pc = "idle"
    /\ \E uuid \in Instances : d_todo' = <<uuid>>
    /\ d_op' = "delete_allocation_for_instance"
    /\ d_pc' = "allocation"
    /\ UNCHANGED <<d_result, d_status, d_logged, r_allocs, invVars>>

\* a mistake at line 1562: every failed deletion is logged as a warning
LogsNotFoundToo(status) == TRUE

\* line 1562
LogsWarning(status) == status # 404

\* the call goes on after one delete_allocation_for_instance has returned
\* value: to the next instance of the cascade (lines 1604-1605), to the
\* DELETE of the provider (line 1607), or to its caller
AllocationDeleted(value, status) ==
    IF d_op = "delete_allocation_for_instance"
    THEN /\ d_pc' = "done"
         /\ d_result' = value
         /\ d_status' = status
         /\ d_todo' = <<>>
    ELSE /\ d_todo' = Tail(d_todo)
         /\ d_pc' = IF Tail(d_todo) = <<>> THEN "provider" ELSE "allocation"
         /\ UNCHANGED <<d_result, d_status>>

\* lines 1552-1568
DeleteAllocationForInstance ==
    /\ d_pc = "allocation"
    /\ \E o \in Answers :
         LET uuid == Head(d_todo)
             status == CASE o = "error" -> 500
                         [] o = "answer" /\ uuid \in r_allocs -> 204
                         [] o = "answer" -> 404
                         [] OTHER -> 0
         IN  IF status = 0
             THEN /\ Swallowed(o)
                  /\ AllocationDeleted("None", 0)
                  /\ UNCHANGED r_allocs
             ELSE /\ r_allocs' = IF status = 204 THEN r_allocs \ {uuid}
                                 ELSE r_allocs
                  /\ d_logged' = d_logged \cup
                        (IF status < 400
                         THEN {Logged("allocation", "info")}
                         ELSE IF LogsWarning(status)
                         THEN {Logged("allocation", "warning")}
                         ELSE {})
                  /\ AllocationDeleted(IF status < 400 THEN "True"
                                       ELSE "False", status)
                  /\ UNCHANGED cacheVars
    /\ UNCHANGED <<d_op, remoteVars, now, callVars>>

\* lines 1586-1605
CallDeleteResourceProvider ==
    /\ d_pc = "idle"
    /\ d_op' = "delete_resource_provider"
    /\ \E cascade \in BOOLEAN :
          /\ d_todo' = IF cascade THEN InstanceList ELSE <<>>
          /\ d_pc' = IF cascade THEN "allocation" ELSE "provider"
    /\ UNCHANGED <<d_result, d_status, d_logged, r_allocs, invVars>>

\* lines 1606-1626
DeleteResourceProvider ==
    /\ d_pc = "provider"
    /\ d_pc' = "done"
    /\ d_result' = "None"
    /\ \E o \in Answers :
         LET status == CASE o = "error" -> 500
                         [] o = "answer" /\ ~r_exists[Node] -> 404
                         [] o = "answer" /\ r_allocs # {} -> 409
                         [] o = "answer" -> 204
                         [] OTHER -> 0
         IN  /\ d_status' = status
             /\ IF status = 0
                THEN Swallowed(o) /\ UNCHANGED r_exists
                ELSE /\ r_exists' = [r_exists EXCEPT
                                        ![Node] = @ /\ status # 204]
                     /\ d_logged' = d_logged \cup
                           (IF status < 400
                            THEN {Logged("provider", "info")}
                            ELSE IF LogsWarning(status)
                            THEN {Logged("provider", "warning")}
                            ELSE {})
                     /\ IF status < 400
                        THEN /\ provider_tree' =
                                  IF exists(provider_tree, Node)
                                  THEN remove(provider_tree, Node)
                                  ELSE provider_tree
                             /\ association_refresh_time' =
                                  [u \in (DOMAIN association_refresh_time)
                                         \ {Node} |->
                                      association_refresh_time[u]]
                        ELSE UNCHANGED cacheVars
    /\ UNCHANGED <<d_op, d_todo, r_allocs, r_gen, r_inv, r_aggs, r_classes,
                   nothers,
                   now, callVars>>

\* the deletion has returned; the next one may begin
DeleteReturns ==
    /\ d_pc = "done"
    /\ d_pc' = "idle"
    /\ d_op' = "none"
    /\ d_result' = "pending"
    /\ d_status' = 0
    /\ d_logged' = {}
    /\ UNCHANGED <<d_todo, r_allocs, invVars>>

(***************************************************************************)
(* The client shared by threads.  A thread whose safe_connect caught       *)
(* EndpointNotFound runs _create_client (lines 271-282) under the          *)
(* semaphore of line 271; a thread in _ensure_resource_provider reads and  *)
(* writes the cache without it (lines 617-643 and 692-733).  A step is one *)
(* statement on the attributes of the client.                              *)
(***************************************************************************)
Threads == {"t1", "t2"}

VARIABLES
    t_pc,       \* where each thread stands
    semaphore,  \* the thread holding PLACEMENT_CLIENT_SEMAPHORE, or "free"
    torn        \* a thread has read or written the cache between the two
                \* assignments of another thread's _create_client

thrVars == <<t_pc, semaphore, torn>>

ThreadIdle ==
    /\ t_pc = <<>>
    /\ semaphore = "free"
    /\ torn = FALSE

\* the client as constructed (lines 262-269), or with the compute node's
\* provider cached and its associations refreshed, and every thread
\* between two calls
RebuildInit ==
    /\ t_pc = [t \in Threads |-> "idle"]
    /\ semaphore = "free"
    /\ torn = FALSE
    /\ \/ /\ provider_tree = <<>>
          /\ association_refresh_time = <<>>
       \/ /\ provider_tree = new_root(<<>>, Node, 0)
          /\ association_refresh_time = (Node :> StartTime)
    /\ now = StartTime
    /\ r_exists = <<>>
    /\ r_gen = <<>>
    /\ r_inv = <<>>
    /\ r_aggs = <<>>
    /\ r_classes = {}
    /\ nothers = 0
    /\ CallIdle
    /\ prev = NoPrev
    /\ ncalls = 0

At(t, label) == t_pc' = [t_pc EXCEPT ![t] = label]

\* the threads inside _create_client, after line 271
Rebuilding == { t \in Threads : t_pc[t] \in {"c_tree", "c_times", "c_end"} }

\* another thread has replaced the provider tree and not yet the refresh
\* times
HalfRebuilt(t) == \E u \in Threads \ {t} : t_pc[u] = "c_times"

\* a statement of an operation on the cache
Touches(t) == torn' = (torn \/ HalfRebuilt(t))

\* lines 65-73: safe_connect has caught EndpointNotFound
CatchEndpointNotFound(t) ==
    /\ t_pc[t] = "idle"
    /\ At(t, "c_lock")
    /\ UNCHANGED <<semaphore, torn, cacheVars>>

\* line 271: utils.synchronized lets one thread in
AcquireSemaphore(t) ==
    /\ t_pc[t] = "c_lock"
    /\ semaphore = "free"
    /\ semaphore' = t
    /\ At(t, "c_tree")
    /\ UNCHANGED <<torn, cacheVars>>

\* line 275
FlushProviderTree(t) ==
    /\ t_pc[t] = "c_tree"
    /\ provider_tree' = <<>>
    /\ At(t, "c_times")
    /\ UNCHANGED <<semaphore, torn, association_refresh_time>>

\* line 276
FlushRefreshTimes(t) ==
    /\ t_pc[t] = "c_times"
    /\ association_refresh_time' = <<>>
    /\ At(t, "c_end")
    /\ UNCHANGED <<semaphore, torn, provider_tree>>

\* lines 277-282: the adapter is made and the semaphore released
ReleaseSemaphore(t) ==
    /\ t_pc[t] = "c_end"
    /\ semaphore' = "free"
    /\ At(t, "idle")
    /\ UNCHANGED <<torn, cacheVars>>

\* lines 617-623: _ensure_resource_provider asks the cache
CheckExists(t) ==
    /\ t_pc[t] = "idle"
    /\ At(t, IF exists(provider_tree, Node) THEN "o_stale" ELSE "o_insert")
    /\ Touches(t)
    /\ UNCHANGED <<semaphore, cacheVars>>

\* lines 627-629: the record fetched or created goes into the cache.  The
\* tree asked to insert a uuid it holds either refuses with ValueError, as
\* its remove does for a uuid it does not hold (line 1615) and as the guard
\* of line 719 expects, or keeps its entry.
InsertProvider(t) ==
    /\ t_pc[t] = "o_insert"
    /\ \/ /\ ~exists(provider_tree, Node)
          /\ provider_tree' = new_root(provider_tree, Node, 0)
          /\ At(t, "o_stamp")
       \/ /\ exists(provider_tree, Node)
          /\ UNCHANGED provider_tree
          /\ \/ At(t, "o_stamp")
             \/ At(t, "o_raised")
    /\ Touches(t)
    /\ UNCHANGED <<semaphore, association_refresh_time>>

\* the ValueError of line 630 leaves _ensure_resource_provider and its
\* caller
EnsureRaises(t) ==
    /\ t_pc[t] = "o_raised"
    /\ At(t, "idle")
    /\ UNCHANGED <<semaphore, torn, cacheVars>>

\* lines 692-694 and 735-743
CheckStale(t) ==
    /\ t_pc[t] = "o_stale"
    /\ At(t, IF associations_stale(association_refresh_time, Node)
             THEN "o_stamp" ELSE "idle")
    /\ Touches(t)
    /\ UNCHANGED <<semaphore, cacheVars>>

\* line 733
StampRefreshTime(t) ==
    /\ t_pc[t] = "o_stamp"
    /\ association_refresh_time' = (Node :> now) @@ association_refresh_time
    /\ At(t, "idle")
    /\ Touches(t)
    /\ UNCHANGED <<semaphore, provider_tree>>

(***************************************************************************)
(* The specifications.                                                     *)
(***************************************************************************)
vars == <<mergeVars, allocVars, invVars, delVars, thrVars, traitVars>>

\* what the operations of one specification leave alone
notMerge == <<allocVars, invVars, delVars, thrVars, traitVars>>
notAlloc == <<mergeVars, invVars, delVars, thrVars, traitVars>>
notInv == <<mergeVars, allocVars, delVars, thrVars, traitVars>>
notDel == <<mergeVars, allocVars, thrVars, traitVars>>
notThr == <<mergeVars, allocVars, delVars, remoteVars, now, callVars,
            traitVars>>
notTrait == <<mergeVars, allocVars, delVars, thrVars>>

MergeNext ==
    MoveOperationAllocRequest /\ UNCHANGED notMerge

InitMerge ==
    MergeInit /\ AllocIdle /\ InvIdle /\ DelIdle /\ ThreadIdle /\ TraitIdle

SpecMerge == InitMerge /\ [][MergeNext]_vars

AllocNext ==
    \/ CallClaimResources /\ UNCHANGED notAlloc
    \/ ClaimResourcesAttempt /\ UNCHANGED notAlloc
    \/ CallSetAndClearAllocations /\ UNCHANGED notAlloc
    \/ SetAndClearAllocationsAttempt /\ UNCHANGED notAlloc
    \/ CallPutAllocations /\ UNCHANGED notAlloc
    \/ PutAllocationsAttempt /\ UNCHANGED notAlloc
    \/ CallRemoveProvider /\ UNCHANGED notAlloc
    \/ RemoveProviderFromInstanceAllocation /\ UNCHANGED notAlloc
    \/ Return /\ UNCHANGED notAlloc

InitAlloc ==
    AllocIdle /\ MergeIdle /\ InvIdle /\ DelIdle /\ ThreadIdle /\ TraitIdle

SpecAlloc == InitAlloc /\ [][AllocNext]_vars

\* The compute node of Spec is in no aggregate (InvInit): its refresh ends
\* with the traits, and the steps of the sharing providers are not taken.
Next ==
    \/ OtherWriter /\ UNCHANGED notInv
    \/ OtherDeleter /\ UNCHANGED notInv
    \/ Tick /\ UNCHANGED notInv
    \/ CallEnsureResourceProvider /\ UNCHANGED notInv
    \/ GetResourceProvider /\ UNCHANGED notInv
    \/ CreateResourceProvider /\ UNCHANGED notInv
    \/ GetResourceProviderAgain /\ UNCHANGED notInv
    \/ GetProviderAggregates /\ UNCHANGED notInv
    \/ GetProviderTraits /\ UNCHANGED notInv
    \/ CallSetInventoryForProvider /\ UNCHANGED notInv
    \/ GetInventory /\ UNCHANGED notInv
    \/ PutInventory /\ UNCHANGED notInv
    \/ GetInventoryToDelete /\ UNCHANGED notInv
    \/ DeleteInventory /\ UNCHANGED notInv
    \/ PutEmptyInventory /\ UNCHANGED notInv
    \/ Returns /\ UNCHANGED notInv

Init ==
    InvInit /\ MergeIdle /\ AllocIdle /\ DelIdle /\ ThreadIdle /\ TraitIdle

Spec == Init /\ [][Next]_vars

\* set_inventory_for_provider called by a virt driver with a custom
\* resource class
ClassesNext ==
    \/ OtherWriter /\ UNCHANGED notInv
    \/ OtherDeleter /\ UNCHANGED notInv
    \/ Tick /\ UNCHANGED notInv
    \/ GetResourceProvider /\ UNCHANGED notInv
    \/ CreateResourceProvider /\ UNCHANGED notInv
    \/ GetResourceProviderAgain /\ UNCHANGED notInv
    \/ GetProviderAggregates /\ UNCHANGED notInv
    \/ GetProviderTraits /\ UNCHANGED notInv
    \/ CallSetInventoryWithCustomClass /\ UNCHANGED notInv
    \/ EnsureResourceClass /\ UNCHANGED notInv
    \/ GetResourceClass /\ UNCHANGED notInv
    \/ CreateResourceClass /\ UNCHANGED notInv
    \/ GetInventory /\ UNCHANGED notInv
    \/ PutInventory /\ UNCHANGED notInv
    \/ GetInventoryToDelete /\ UNCHANGED notInv
    \/ DeleteInventory /\ UNCHANGED notInv
    \/ PutEmptyInventory /\ UNCHANGED notInv
    \/ Returns /\ UNCHANGED notInv

SpecClasses == Init /\ [][ClassesNext]_vars

\* _ensure_resource_class called by itself
ResourceClassNext ==
    \/ OtherRegistrar /\ UNCHANGED notInv
    \/ CallEnsureResourceClass /\ UNCHANGED notInv
    \/ EnsureResourceClass /\ UNCHANGED notInv
    \/ GetResourceClass /\ UNCHANGED notInv
    \/ CreateResourceClass /\ UNCHANGED notInv
    \/ Returns /\ UNCHANGED notInv

SpecResourceClass == Init /\ [][ResourceClassNext]_vars

\* threads sharing the client
RebuildNext ==
    \E t \in Threads :
        \/ CatchEndpointNotFound(t) /\ UNCHANGED notThr
        \/ AcquireSemaphore(t) /\ UNCHANGED notThr
        \/ FlushProviderTree(t) /\ UNCHANGED notThr
        \/ FlushRefreshTimes(t) /\ UNCHANGED notThr
        \/ ReleaseSemaphore(t) /\ UNCHANGED notThr
        \/ CheckExists(t) /\ UNCHANGED notThr
        \/ InsertProvider(t) /\ UNCHANGED notThr
        \/ EnsureRaises(t) /\ UNCHANGED notThr
        \/ CheckStale(t) /\ UNCHANGED notThr
        \/ StampRefreshTime(t) /\ UNCHANGED notThr

InitRebuild ==
    RebuildInit /\ MergeIdle /\ AllocIdle /\ DelIdle /\ TraitIdle

SpecRebuild == InitRebuild /\ [][RebuildNext]_vars

DeleteNext ==
    \/ CallDeleteAllocationForInstance /\ UNCHANGED notDel
    \/ DeleteAllocationForInstance /\ UNCHANGED notDel
    \/ CallDeleteResourceProvider /\ UNCHANGED notDel
    \/ DeleteResourceProvider /\ UNCHANGED notDel
    \/ DeleteReturns /\ UNCHANGED notDel

InitDelete ==
    DelInit /\ MergeIdle /\ AllocIdle /\ ThreadIdle /\ TraitIdle

SpecDelete == InitDelete /\ [][DeleteNext]_vars

\* an HTTP call of the running call of the client returns
TransportCall ==
    \/ GetResourceProvider
    \/ CreateResourceProvider
    \/ GetResourceProviderAgain
    \/ GetProviderAggregates
    \/ GetProviderTraits
    \/ GetProvidersInAggregates
    \/ GetSharingAggregates
    \/ GetSharingTraits
    \/ GetInventory
    \/ PutInventory
    \/ GetInventoryToDelete
    \/ DeleteInventory
    \/ PutEmptyInventory

\* the compute node's provider in an aggregate with a sharing provider
ShareNext ==
    \/ OtherWriter /\ UNCHANGED notInv
    \/ CallUpdateComputeNode /\ UNCHANGED notInv
    \/ GetResourceProvider /\ UNCHANGED notInv
    \/ CreateResourceProvider /\ UNCHANGED notInv
    \/ GetResourceProviderAgain /\ UNCHANGED notInv
    \/ GetProviderAggregates /\ UNCHANGED notInv
    \/ GetProviderTraits /\ UNCHANGED notInv
    \/ GetProvidersInAggregates /\ UNCHANGED notInv
    \/ GetSharingAggregates /\ UNCHANGED notInv
    \/ GetSharingTraits /\ UNCHANGED notInv
    \/ GetInventory /\ UNCHANGED notInv
    \/ PutInventory /\ UNCHANGED notInv
    \/ GetInventoryToDelete /\ UNCHANGED notInv
    \/ DeleteInventory /\ UNCHANGED notInv
    \/ PutEmptyInventory /\ UNCHANGED notInv
    \/ Returns /\ UNCHANGED notInv

InitShare ==
    ShareInit /\ MergeIdle /\ AllocIdle /\ DelIdle /\ ThreadIdle /\ TraitIdle

\* every HTTP call returns: the step of the running call is taken
SpecShare ==
    /\ InitShare
    /\ [][ShareNext]_vars
    /\ WF_vars(TransportCall /\ UNCHANGED notInv)

\* the compute node's provider and a child below it
TreeNext ==
    \/ OtherWriter /\ UNCHANGED notInv
    \/ OtherChildWriter /\ UNCHANGED notInv
    \/ OtherDeleter /\ UNCHANGED notInv
    \/ GetResourceProvider /\ UNCHANGED notInv
    \/ CreateResourceProvider /\ UNCHANGED notInv
    \/ GetResourceProviderAgain /\ UNCHANGED notInv
    \/ GetProviderAggregates /\ UNCHANGED notInv
    \/ GetProviderTraits /\ UNCHANGED notInv
    \/ CallSetInventoryForProvider /\ UNCHANGED notInv
    \/ CallSetInventoryForChild /\ UNCHANGED notInv
    \/ GetInventory /\ UNCHANGED notInv
    \/ PutInventory /\ UNCHANGED notInv
    \/ GetInventoryToDelete /\ UNCHANGED notInv
    \/ DeleteInventory /\ UNCHANGED notInv
    \/ PutEmptyInventory /\ UNCHANGED notInv
    \/ Returns /\ UNCHANGED notInv

InitTree ==
    TreeInit /\ MergeIdle /\ AllocIdle /\ DelIdle /\ ThreadIdle /\ TraitIdle

SpecTree == InitTree /\ [][TreeNext]_vars

\* the traits of the compute node's provider, with another writer
TraitsNext ==
    \/ OtherWriter /\ UNCHANGED notInv
    \/ CallSetTraitsForProvider /\ UNCHANGED notTrait
    \/ CallEnsureTraits /\ UNCHANGED notTrait
    \/ GetTraits /\ UNCHANGED notTrait
    \/ PutTrait /\ UNCHANGED notTrait
    \/ PutProviderTraits /\ UNCHANGED notTrait
    \/ Returns /\ UNCHANGED notInv

InitTraits ==
    TraitsInit /\ MergeIdle /\ AllocIdle /\ DelIdle /\ ThreadIdle

SpecTraits == InitTraits /\ [][TraitsNext]_vars

(***************************************************************************)
(* Claims about the move-operation merge.                                  *)
(***************************************************************************)
\* the lines of a request that name provider u
LinesOf(lines, u) == { i \in 1..Len(lines) : lines[i].uuid = u }

\* the amount of resource class rc a destination request asks of provider u
RequestedAmount(dest, u, rc) ==
    LET i == CHOOSE j \in LinesOf(dest, u) : TRUE
    IN  IF LinesOf(dest, u) = {} THEN 0 ELSE Get(dest[i].resources, rc)

CrossHostMove == UuidsOf(dest_alloc_req) \cap DOMAIN source_allocs = {}
SameHostMove == UuidsOf(dest_alloc_req) \subseteq DOMAIN source_allocs

\* C3: cross-host move-merge. When the destination request references only
\* providers absent from the current allocations, the merged request holds
\* every current allocation line with its quantities unchanged and every
\* destination line unchanged, and nothing else.
C3_CrossHostKeepsBoth ==
    (m_pc = "done" /\ CrossHostMove) =>
        /\ \A u \in DOMAIN source_allocs :
              \E i \in 1..Len(new_alloc_req) :
                 new_alloc_req[i] = Line(u, source_allocs[u].resources)
        /\ \A j \in 1..Len(dest_alloc_req) :
              \E i \in 1..Len(new_alloc_req) :
                 new_alloc_req[i] = dest_alloc_req[j]
        /\ Len(new_alloc_req) =
              Cardinality(DOMAIN source_allocs) + Len(dest_alloc_req)

\* C3 witness: the spec's example, current {A: {VCPU}} and a destination
\* request for B only, merged into two lines
C3_Witness ==
    /\ m_pc = "done"
    /\ DOMAIN source_allocs = {"A"}
    /\ UuidsOf(dest_alloc_req) = {"B"}
    /\ Len(new_alloc_req) = 2

\* C4: same-host move-merge. When every provider of the destination request
\* is already in the current allocations no line is added: the result has
\* exactly one line per current provider, and for a provider the destination
\* request references every resource class holds the current amount plus
\* the requested amount.
C4_SameHostSums ==
    (m_pc = "done" /\ SameHostMove) =>
        /\ Len(new_alloc_req) = Cardinality(DOMAIN source_allocs)
        /\ \A u \in DOMAIN source_allocs :
              Cardinality(LinesOf(new_alloc_req, u)) = 1
        /\ \A u \in UuidsOf(dest_alloc_req) :
              \A i \in LinesOf(new_alloc_req, u) :
                 \A rc \in ResourceClasses :
                    Get(new_alloc_req[i].resources, rc) =
                       Get(source_allocs[u].resources, rc)
                       + RequestedAmount(dest_alloc_req, u, rc)

\* C4 witness: the spec's example, one provider A holding VCPU and
\* MEMORY_MB and a request for the same amounts on A, merged into a single
\* line holding the doubled amounts
C4_Witness ==
    /\ m_pc = "done"
    /\ DOMAIN source_allocs = {"A"}
    /\ DOMAIN source_allocs["A"].resources = ResourceClasses
    /\ Len(dest_alloc_req) = 1
    /\ dest_alloc_req[1] = Line("A", source_allocs["A"].resources)
    /\ Len(new_alloc_req) = 1
    /\ \A rc \in ResourceClasses :
          new_alloc_req[1].resources[rc] = 2 * source_allocs["A"].resources[rc]

\* the destination request names a provider the consumer has no allocation
\* on and a provider it has one on
MixedMove ==
    /\ UuidsOf(dest_alloc_req) \ DOMAIN source_allocs # {}
    /\ UuidsOf(dest_alloc_req) \cap DOMAIN source_allocs # {}

\* C37: move-merge, mixed case. When the destination request names a new
\* provider and a provider already in the current allocations (shared
\* storage), the merged request has exactly one line per provider, a
\* provider already present keeps exactly its current amounts, and the
\* destination line of each new provider is added unchanged.
C37_MixedMoveKeepsPresent ==
    (m_pc = "done" /\ MixedMove) =>
        /\ UuidsOf(new_alloc_req) =
              DOMAIN source_allocs \cup UuidsOf(dest_alloc_req)
        /\ \A u \in UuidsOf(new_alloc_req) :
              Cardinality(LinesOf(new_alloc_req, u)) = 1
        /\ \A u \in DOMAIN source_allocs :
              \A i \in LinesOf(new_alloc_req, u) :
                 new_alloc_req[i].resources = source_allocs[u].resources
        /\ \A j \in 1..Len(dest_alloc_req) :
              dest_alloc_req[j].uuid \notin DOMAIN source_allocs =>
                 \A i \in LinesOf(new_alloc_req, dest_alloc_req[j].uuid) :
                    new_alloc_req[i] = dest_alloc_req[j]

\* C37 witness: the consumer holds allocations on A and on the shared
\* provider S, the destination request names B and S with other amounts
\* for S, and the merged request has the three lines
C37_Witness ==
    /\ m_pc = "done"
    /\ DOMAIN source_allocs = {"A", "S"}
    /\ UuidsOf(dest_alloc_req) = {"B", "S"}
    /\ \E j \in 1..Len(dest_alloc_req) :
          /\ dest_alloc_req[j].uuid = "S"
          /\ dest_alloc_req[j].resources # source_allocs["S"].resources
    /\ Len(new_alloc_req) = 3

(***************************************************************************)
(* Claims about the allocation write operations.                           *)
(***************************************************************************)
Returned(op) == a_op = op /\ a_result # "pending"

\* some call to the transport raised instead of answering
TransportFailed == a_read.kind = "raised" \/ a_last.kind = "raised"

\* C1: claim_resources, with every call answered: when every PUT is answered
\* non-204 with the phrase 'concurrently updated', exactly 3 PUTs are made and
\* the call returns False; when the first PUT is answered non-204 without
\* the phrase, exactly 1 PUT is made and the call returns False.
C1_ClaimRetriesThreeTimes ==
    (Returned("claim_resources") /\ ~TransportFailed) =>
        /\ (a_conflicts = a_writes) =>
              (a_writes = 3 /\ a_result = "False")
        /\ (a_first.status # 204 /\ ~a_first.conflict) =>
              (a_writes = 1 /\ a_result = "False")

\* C1 witness: a claim that returned False after three conflicting PUTs
C1_Witness ==
    /\ Returned("claim_resources")
    /\ ~TransportFailed
    /\ a_writes = 3
    /\ a_conflicts = 3
    /\ a_result = "False"

\* C2: claim_resources, set_and_clear_allocations and put_allocations return
\* True exactly when the last allocation write they issued was answered
\* with status 204.
C2_TrueIffNoContent ==
    (\E op \in {"claim_resources", "set_and_clear_allocations",
                "put_allocations"} : Returned(op)) =>
        (a_result = "True" <=>
            (a_last.kind = "response" /\ a_last.status = 204))

\* C2 witness: put_allocations answered 406 and then, on the PUT of the
\* older version, 204
C2_Witness ==
    /\ Returned("put_allocations")
    /\ a_writes = 2
    /\ a_first.kind = "response" /\ a_first.status = 406
    /\ a_last.kind = "response" /\ a_last.status = 204
    /\ a_result = "True"

\* the call of remove_provider_from_instance_allocation went as far as the
\* PUT: the allocations were fetched and hold rp_uuid
RemoveWrote ==
    /\ Returned("remove_provider_from_instance_allocation")
    /\ a_read.kind = "response" /\ a_read.status = 200
    /\ a_args.rp_uuid \in DOMAIN a_read.allocations
    /\ a_writes = 1

\* the providers of the fetched allocations that hold a VCPU amount
VcpuHolders ==
    { u \in DOMAIN a_read.allocations :
        Get(a_read.allocations[u].resources, VCPU) > 0 }

\* C5: remove_provider_from_instance_allocation, the fetched allocations
\* holding rp_uuid. With two or more providers holding VCPU the payload has
\* no line for rp_uuid and every other provider's line unchanged; with
\* exactly one it keeps one line for rp_uuid whose amount of each resource
\* class is the current amount minus the amount to subtract, not below zero.
C5_DropOrSubtract ==
    RemoveWrote =>
        LET cur == a_read.allocations
            rp == a_args.rp_uuid
            lines == a_payload.allocations
        IN  /\ Cardinality(VcpuHolders) >= 2 =>
                 /\ LinesOf(lines, rp) = {}
                 /\ Len(lines) = Cardinality(DOMAIN cur) - 1
                 /\ \A u \in (DOMAIN cur) \ {rp} :
                       \E i \in 1..Len(lines) :
                          lines[i] = Line(u, cur[u].resources)
            /\ Cardinality(VcpuHolders) = 1 =>
                 /\ Cardinality(LinesOf(lines, rp)) = 1
                 /\ \A i \in LinesOf(lines, rp) :
                       \A rc \in ResourceClasses :
                          Get(lines[i].resources, rc) =
                             Max(0, Get(cur[rp].resources, rc)
                                    - Get(a_args.resources, rc))

\* C5 witness: a single provider holding VCPU, and a resource class of which
\* more is subtracted than rp_uuid holds: the kept line says zero
C5_Witness ==
    /\ RemoveWrote
    /\ Cardinality(VcpuHolders) = 1
    /\ \E rc \in ResourceClasses :
          /\ Get(a_read.allocations[a_args.rp_uuid].resources, rc)
                < Get(a_args.resources, rc)
          /\ \E i \in LinesOf(a_payload.allocations, a_args.rp_uuid) :
                Get(a_payload.allocations[i].resources, rc) = 0

\* the allocations were fetched and do not hold rp_uuid
RemoveAbsent ==
    /\ Returned("remove_provider_from_instance_allocation")
    /\ a_read.kind = "response" /\ a_read.status = 200
    /\ a_args.rp_uuid \notin DOMAIN a_read.allocations

\* C6 as stated: for every fetched allocation set, the empty one included,
\* that does not hold rp_uuid the call returns True and issues no PUT.
C6_AbsentAlwaysSucceeds ==
    RemoveAbsent => (a_result = "True" /\ a_writes = 0)

\* C6 amended: for every fetched allocation set that does not hold rp_uuid no
\* PUT is issued; the call returns True when the set is not empty and False
\* when it is empty.
C6_AbsentNoWrite ==
    RemoveAbsent =>
        /\ a_writes = 0
        /\ a_read.allocations # <<>> => a_result = "True"
        /\ a_read.allocations = <<>> => a_result = "False"

\* C6 witness: a consumer holding allocations on other providers only
C6_Witness ==
    /\ RemoveAbsent
    /\ a_read.allocations # <<>>
    /\ a_result = "True"
    /\ a_writes = 0

(***************************************************************************)
(* Claims about the provider cache and the inventory protocols.            *)
(***************************************************************************)
Ensuring == call = "_ensure_resource_provider"
SettingInventory == call = "set_inventory_for_provider"

\* the call is an _ensure_resource_provider that has returned the uuid
EnsureSucceeded == Ensuring /\ pc = "done" /\ result = loc.uuid

\* C7: _ensure_resource_provider called twice in sequence for a provider
\* that was neither cached nor known to the placement service, both calls
\* returning the uuid: the first call has made exactly one POST and exactly
\* one GET of the provider record; the second call has found the uuid in
\* the cache and has made no POST and no GET of the record.
C7_EnsureTwiceCreatesOnce ==
    /\ (EnsureSucceeded /\ loc.rp_from = "created")
       => (calls.post_rp = 1 /\ calls.get_rp = 1)
    /\ (EnsureSucceeded /\ prev.created)
       => (loc.cached /\ calls.post_rp = 0 /\ calls.get_rp = 0)

\* the PUT of the inventory update was answered with 200
UpdatePutSucceeded ==
    SettingInventory /\ loc.inv_data # <<>> /\ loc.status = 200

\* C8: after an inventory update attempt whose PUT was answered with 200,
\* the cached generation of the provider is greater than it was when the
\* attempt began, and the cached inventory is the inventory of the payload.
C8_PutSuccessAdvancesCache ==
    UpdatePutSucceeded =>
        /\ exists(provider_tree, loc.uuid)
        /\ provider_tree[loc.uuid].generation > loc.gen0
        /\ provider_tree[loc.uuid].inventory = loc.inv_data

\* a PUT answered with 200 for a provider whose cached generation was not 0
C8_Witness ==
    /\ UpdatePutSucceeded
    /\ pc = "done"
    /\ loc.gen0 > 0

\* C9: when the proposed inventory holds what the cached inventory holds at
\* the comparison, in whatever key order, the attempt returns True and has
\* made no PUT; a PUT is made only when they differ.
C9_UnchangedInventoryNotWritten ==
    /\ loc.compared = "same"
       => /\ pc = "done"
          /\ loc.updated = "True"
          /\ loc.status = 0
    /\ pc = "u_put"
       => /\ loc.compared = "changed"
          /\ ContentOf(provider_tree[loc.uuid].inventory)
                 # ContentOf(loc.inv_data)

\* the proposed inventory equals the cached one in another key order
C9_Witness ==
    /\ loc.compared = "same"
    /\ pc = "done"
    /\ provider_tree[loc.uuid].inventory # loc.inv_data

\* C10: when the cache reports no inventory for the provider,
\* _delete_inventory makes no GET, no DELETE and no PUT of the inventory,
\* and leaves the cache and the refresh times as it found them.
C10_DeleteWithoutInventoryIsNoOp ==
    loc.had_inventory = "no"
    => /\ pc = "done"
       /\ result = "None"
       /\ calls.get_inv = 0
       /\ calls.delete_inv = 0
       /\ calls.put_inv = 0
       /\ provider_tree = loc.before.tree
       /\ association_refresh_time = loc.before.times

\* _delete_inventory returned at once for a cached provider
C10_Witness ==
    /\ loc.had_inventory = "no"
    /\ pc = "done"
    /\ exists(provider_tree, loc.uuid)

\* the PUT of an inventory update was answered with 409 and a text that
\* names classes in use
InUseAnswered == call = "set_inventory_for_provider" /\ loc.text # {}

\* C12: once the PUT of an inventory update is answered with 409 and the
\* in-use text, the call has ended with InventoryInUse naming the classes of
\* the text: it makes no further request, that PUT was the PUT of the
\* attempt it was in, and the provider is still in the cache.
C12_InUseFailsPermanently ==
    InUseAnswered =>
        /\ pc = "done"
        /\ result = "InventoryInUse"
        /\ loc.in_use = loc.text
        /\ loc.status = 409
        /\ calls.get_inv = loc.attempt
        /\ calls.put_inv <= loc.attempt
        /\ exists(provider_tree, loc.uuid)

\* the in-use answer came at the second attempt, after a conflict of
\* generation at the first
C12_Witness ==
    /\ InUseAnswered
    /\ result = "InventoryInUse"
    /\ loc.attempt = 2
    /\ calls.put_inv = 2

\* _update_inventory is running or has returned
Updating == call = "set_inventory_for_provider" /\ loc.attempt > 0

\* C13: _update_inventory makes at most 3 attempts in a call; an attempt
\* that succeeded is the last one; and after 3 attempts that returned False
\* the call has returned False to its caller, which raises nothing.
C13_AtMostThreeAttempts ==
    Updating =>
        /\ loc.attempt <= 3
        /\ loc.failed <= 3
        /\ calls.get_inv <= 3
        /\ calls.put_inv <= 3
        /\ loc.updated = "True"
           => /\ pc = "done"
              /\ loc.compared = "same" \/ loc.status = 200
              /\ calls.get_inv = loc.failed + 1
        /\ loc.failed = 3
           => /\ pc = "done"
              /\ loc.updated = "False"
              /\ result = "None"

\* three attempts have failed, each at its PUT, while another actor changed
\* the provider, and the call has returned
C13_Witness ==
    /\ Updating
    /\ loc.failed = 3
    /\ loc.updated = "False"
    /\ calls.put_inv = 3
    /\ nothers = 1

\* the requests of _ensure_resource_provider and of _ensure_resource_class
ProviderSteps == {"e_get", "e_post", "e_reget", "r_aggs", "r_traits"}
ClassSteps == {"c_put", "c_get", "c_post"}

\* C14: set_inventory_for_provider ensures the provider, then the custom
\* resource classes, then runs the update when inv_data is not empty and
\* the deletion when it is: no inventory request is made while the provider
\* or a class is still being ensured for the first time, and an inventory
\* write is made only with the provider cached and every custom class of
\* inv_data registered.
C14_WritesAfterProviderAndClasses ==
    SettingInventory =>
        /\ (pc \in ProviderSteps \cup ClassSteps
              /\ loc.caller = "set_inventory_for_provider")
           => calls.get_inv + calls.put_inv + calls.delete_inv = 0
        /\ pc \in {"u_put", "d_delete", "d_put"}
           => exists(provider_tree, loc.uuid)
        /\ loc.inv_data # <<>> => calls.delete_inv = 0
        /\ loc.inv_data = <<>> => loc.attempt = 0
        /\ calls.put_inv + calls.delete_inv > 0
           => \A i \in 1..Len(loc.inv_data) :
                 loc.inv_data[i].rc \in ResourceClasses \cup r_classes

\* set_and_clear_allocations has sent a POST
SetAndClearPosted == a_op = "set_and_clear_allocations" /\ a_writes > 0

\* C15: every attempt of set_and_clear_allocations sends one POST; its
\* document sets the allocation of the instance on rp_uuid to alloc_data
\* and, when consumer_to_clear is given, holds that consumer with empty
\* allocations and no other consumer; so after the POST the placement
\* service holds the new allocation exactly when it has cleared the other.
C15_SetAndClearInOnePost ==
    SetAndClearPosted =>
        LET wanted == a_args.rp_uuid :> [resources |-> a_args.resources]
            clear == a_args.consumer_to_clear
            after == Posted(HeldBefore, a_payload, a_last)
        IN  /\ a_writes = a_attempt
            /\ DOMAIN a_payload =
                 {"instance"} \cup (IF clear = "none" THEN {} ELSE {clear})
            /\ a_payload["instance"].allocations = wanted
            /\ clear # "none" =>
                 /\ a_payload[clear].allocations = <<>>
                 /\ (after["instance"] = wanted) <=> (after[clear] = <<>>)

\* the second POST of a call that clears the migration was answered 204
C15_Witness ==
    /\ SetAndClearPosted
    /\ a_args.consumer_to_clear = "migration"
    /\ a_writes = 2
    /\ a_last.kind = "response"
    /\ a_last.status = 204
    /\ Posted(HeldBefore, a_payload, a_last)["migration"] = <<>>

\* C16: after a creation POST answered with 409 and no name conflict the
\* call fetches the record again and inserts what it fetched, or fails on
\* that GET, and never raises the creation failure; after a 409 with a name
\* conflict, or another status that is not 201, the call has raised the
\* creation failure and the provider is not in the cache.
C16_CreationConflicts ==
    /\ loc.post = "uuid_conflict"
       => \/ pc = "e_reget"
          \/ loc.rp_from = "refetched" /\ calls.get_rp >= 2
          \/ /\ pc = "done"
             /\ result \in {"TypeError", "ResourceProviderRetrievalFailed"}
    /\ loc.post \in {"name_conflict", "error"}
       => /\ pc = "done"
          /\ result = "ResourceProviderCreationFailed"
          /\ ~exists(provider_tree, loc.uuid)

\* the POST met a provider of the same uuid, and the call has inserted the
\* record it fetched after that
C16_Witness ==
    /\ loc.post = "uuid_conflict"
    /\ loc.rp_from = "refetched"
    /\ exists(provider_tree, loc.uuid)
    /\ provider_tree[loc.uuid].generation = r_gen[loc.uuid]

\* C17: every write of a provider's inventory carries the generation the
\* call last observed for the provider, and no write is accepted over a
\* change the call has not seen.
C17_WritesCarryGeneration ==
    (SettingInventory /\ loc.sent # NoGen) =>
        /\ loc.sent = loc.cur_gen
        /\ ~loc.overwrote

\* the reporting cycle has ended in failure: it raised, its update did not
\* return True, or the write of its deletion was not accepted
CycleFailed ==
    /\ SettingInventory
    /\ pc = "done"
    /\ \/ result # "None"
       \/ loc.inv_data # <<>> /\ loc.updated # "True"
       \/ /\ loc.inv_data = <<>>
          /\ loc.sent # NoGen
          /\ loc.status \notin {200, 204}

\* what the cache holds as the inventory of the cycle's provider
CachedInventory(tree) ==
    IF exists(tree, loc.uuid) THEN {ContentOf(tree[loc.uuid].inventory)}
    ELSE {}

\* C19 as claimed: a reporting cycle that ends in failure leaves the provider
\* cache as it was when the cycle began.
C19_FailedCycleLeavesCache == CycleFailed => provider_tree = loc.start

\* C19: a reporting cycle that ends in failure has not put the proposed
\* inventory into the cache: the inventory cached for the provider is the one
\* cached when the cycle began, one the placement service answered during
\* the cycle, or the empty one of a provider the cycle inserted.
C19_FailedCycleKeepsProposedOut ==
    CycleFailed =>
        CachedInventory(provider_tree)
            \subseteq CachedInventory(loc.start) \cup loc.fetched \cup {{}}

\* a failed update has left in the cache the inventory fetched during the
\* cycle, which is neither the one cached before nor the proposed one
C19_Witness ==
    /\ CycleFailed
    /\ loc.inv_data # <<>>
    /\ exists(loc.start, loc.uuid)
    /\ exists(provider_tree, loc.uuid)
    /\ CachedInventory(provider_tree) # CachedInventory(loc.start)
    /\ CachedInventory(provider_tree) \subseteq loc.fetched
    /\ CachedInventory(provider_tree) # {ContentOf(loc.inv_data)}

\* C20: in every state the generation cached for a provider the placement
\* service holds is at most the generation the service holds for it; no
\* operation, the deletion answered with 204 included, stores a larger one.
C20_CachedGenerationNotAhead ==
    \A u \in DOMAIN provider_tree :
        r_exists[u] => provider_tree[u].generation <= r_gen[u]

\* a deletion answered with 204 has stored the generation it guessed, and
\* the placement service is at that generation
C20_Witness ==
    /\ SettingInventory
    /\ pc = "done"
    /\ loc.sent = Ungenerated
    /\ loc.status = 204
    /\ r_exists[loc.uuid]
    /\ exists(provider_tree, loc.uuid)
    /\ provider_tree[loc.uuid].generation = loc.cur_gen + 1
    /\ r_gen[loc.uuid] = loc.cur_gen + 1

\* _ensure_resource_provider runs again after an inventory PUT answered
\* with 409 and no in-use text (lines 815-821)
Reensuring ==
    /\ call = "set_inventory_for_provider"
    /\ loc.caller = "_update_inventory_attempt"

\* _delete_inventory has ended on its fallback PUT answered with 409
FallbackConflict ==
    /\ call = "set_inventory_for_provider"
    /\ pc = "done"
    /\ calls.delete_inv = 1
    /\ calls.put_inv = 1
    /\ loc.status = 409

RefreshSteps == {"r_aggs", "r_traits", "s_aggs", "s_traits"}

\* the HTTP calls of the inventory protocols, each followed by an update or
\* a removal of the provider in the cache
InventorySteps == {"u_get", "u_put", "d_get", "d_delete", "d_put"}

\* C28: no step mutates the cache for a uuid that is absent from it: the
\* update of the aggregates or traits never raises ValueError for an unknown
\* uuid, and a step of the inventory protocols that changes the entry of
\* the provider finds the provider in the cache.
C28_MutationsFindTheProvider ==
    [][/\ pc \in RefreshSteps => ~(pc' = "done" /\ result' = "ValueError")
       /\ (pc \in InventorySteps /\ provider_tree' # provider_tree
              /\ provider_tree' # <<>>)
          => exists(provider_tree, loc.uuid)]_vars

\* C30: each inventory PUT answered with 409 and no in-use text is followed
\* by a run of _ensure_resource_provider for the same uuid that begins with
\* the provider out of the cache and asks the placement service for it;
\* the entry it inserts is a new one with the generation fetched; and once
\* that run has returned the attempt has returned False to the loop of
\* _update_inventory.
C30_ConflictReloadsProvider ==
    (call = "set_inventory_for_provider" /\ loc.conflicts > 0) =>
        /\ loc.conflicts <= calls.put_inv
        /\ loc.conflicts <= calls.get_rp + (IF Reensuring /\ pc = "e_get"
                                            THEN 1 ELSE 0)
        /\ (Reensuring /\ pc \in {"e_get", "e_post", "e_reget"})
              => ~exists(provider_tree, loc.uuid)
        /\ (Reensuring /\ pc \in {"r_aggs", "r_traits"}
               /\ exists(provider_tree, loc.uuid))
              => /\ provider_tree[loc.uuid].generation = loc.generation
                 /\ provider_tree[loc.uuid].inventory = <<>>
                 /\ loc.rp_from \in {"fetched", "created", "refetched"}
        /\ ~Reensuring => loc.failed >= loc.conflicts

\* after a conflict the provider was fetched again, the next attempt has
\* begun with the provider cached at the generation of the placement
\* service, which is not the one the rejected PUT carried
C30_Witness ==
    /\ call = "set_inventory_for_provider"
    /\ loc.conflicts = 1
    /\ loc.attempt = 2
    /\ pc = "u_get"
    /\ loc.rp_from = "fetched"
    /\ exists(provider_tree, loc.uuid)
    /\ provider_tree[loc.uuid].generation = r_gen[loc.uuid]
    /\ nothers = 1

\* _ensure_resource_class, called by itself, has returned or raised
ClassCallEnded == call = "_ensure_resource_class" /\ pc = "done"

\* the status is one of success
Ok(status) == 200 <= status /\ status < 300

\* what the call returned is the name it was given
ReturnedName == result = Head(loc.classes)

\* C27 as claimed: a 2xx answer to the PUT returns the name; after a 406 the
\* GET and then the POST are used, a 409 on the POST being a success; and
\* every other answered failure, of the PUT, of the GET or of the POST,
\* raises InvalidResourceClass.
C27_EveryFailureIsPermanent ==
    ClassCallEnded =>
        /\ Ok(loc.rc.put) => ReturnedName
        /\ (loc.rc.put = 406 /\ loc.rc.post = 409) => ReturnedName
        /\ (loc.rc.put > 0 /\ ~Ok(loc.rc.put) /\ loc.rc.put # 406)
              => result = "InvalidResourceClass"
        /\ (loc.rc.get > 0 /\ ~Ok(loc.rc.get) /\ loc.rc.get # 404)
              => result = "InvalidResourceClass"
        /\ (loc.rc.post > 0 /\ ~Ok(loc.rc.post) /\ loc.rc.post # 409)
              => result = "InvalidResourceClass"

\* C27: a 2xx answer to the PUT returns the name and nothing else is sent;
\* a 406 is followed by the GET, whose 2xx returns the name and whose 404
\* is followed by the POST, where 2xx and 409 return the name; another
\* status of the PUT or of the POST raises InvalidResourceClass; another
\* status of the GET returns None, with no POST made; a transport error at
\* any of the three returns None.
C27_FailedFetchReturnsNone ==
    ClassCallEnded =>
        /\ Ok(loc.rc.put)
              => ReturnedName /\ loc.rc.get = -1 /\ loc.rc.post = -1
        /\ loc.rc.get # -1 => loc.rc.put = 406
        /\ loc.rc.post # -1 => loc.rc.get = 404
        /\ Ok(loc.rc.get) => ReturnedName /\ loc.rc.post = -1
        /\ (Ok(loc.rc.post) \/ loc.rc.post = 409) => ReturnedName
        /\ (loc.rc.put > 0 /\ ~Ok(loc.rc.put) /\ loc.rc.put # 406)
              => result = "InvalidResourceClass"
        /\ (loc.rc.post > 0 /\ ~Ok(loc.rc.post) /\ loc.rc.post # 409)
              => result = "InvalidResourceClass"
        /\ (loc.rc.get > 0 /\ ~Ok(loc.rc.get) /\ loc.rc.get # 404)
              => result = "None" /\ loc.rc.post = -1
        /\ 0 \in {loc.rc.put, loc.rc.get, loc.rc.post} => result = "None"

\* the GET of the fallback was answered with an error, and the call has
\* returned None
C27_Witness ==
    /\ ClassCallEnded
    /\ loc.rc.put = 406
    /\ loc.rc.get = 500
    /\ result = "None"

(***************************************************************************)
(* Claims about the attempts of _update_inventory and about                *)
(* _delete_inventory.                                                      *)
(***************************************************************************)
\* _update_inventory has returned False at the start of an attempt: the
\* attempt was begun and is not among the failed ones
Bailed ==
    /\ Updating
    /\ pc = "done"
    /\ loc.updated = "False"
    /\ loc.attempt = loc.failed + 1

\* C31: an attempt of _update_inventory that finds the provider out of the
\* cache returns False at once: the attempt makes no GET and no PUT of the
\* inventory, and no attempt follows it; an attempt that goes on to its GET
\* has found the provider in the cache.
C31_AbsentProviderEndsTheLoop ==
    /\ (Updating /\ pc = "u_get") => exists(provider_tree, loc.uuid)
    /\ Bailed =>
           /\ ~exists(provider_tree, loc.uuid)
           /\ calls.get_inv = loc.failed
           /\ calls.put_inv <= loc.failed
           /\ result = "None"
    /\ (Updating /\ pc = "done" /\ loc.updated = "False"
          /\ loc.attempt = loc.failed) => loc.failed = 3

\* the second attempt found the provider gone, after the first had met a
\* conflict and the provider could not be loaded again
C31_Witness ==
    /\ Bailed
    /\ loc.attempt = 2
    /\ loc.conflicts = 1
    /\ calls.get_inv = 1
    /\ calls.put_inv = 1

\* _delete_inventory is running or has returned
Deleting ==
    /\ SettingInventory
    /\ loc.inv_data = <<>>
    /\ loc.had_inventory # "unknown"

\* the deletion was accepted, by the DELETE or by the PUT that replaced it
DeletionAccepted ==
    /\ Deleting
    /\ pc = "done"
    /\ calls.delete_inv = 1
    /\ \/ calls.put_inv = 0 /\ loc.status = 204
       \/ calls.put_inv = 1 /\ loc.status = 200

\* the requests of _delete_inventory: one DELETE after a fetch that found
\* inventory, and one PUT with the fetched generation after a 406
DeletionRequests ==
    Deleting =>
        /\ calls.delete_inv <= 1
        /\ calls.put_inv <= calls.delete_inv
        /\ pc = "d_delete" =>
               calls.get_inv = 1 /\ calls.delete_inv = 0 /\ loc.fetched # {{}}
        /\ pc = "d_put" =>
               calls.delete_inv = 1 /\ calls.put_inv = 0 /\ loc.status = 406
        /\ (pc = "done" /\ calls.put_inv = 1) => loc.sent = loc.cur_gen

\* C32: _delete_inventory sends one DELETE when the cache shows inventory
\* and the fetched inventory is not empty; a 406 leads to one PUT of an
\* empty inventory with the fetched generation; after a deletion accepted
\* by either request the cached inventory is empty and the cached
\* generation is the generation the placement service has reached.
C32_DeletionStoresRemoteGeneration ==
    /\ DeletionRequests
    /\ DeletionAccepted =>
           /\ exists(provider_tree, loc.uuid)
           /\ provider_tree[loc.uuid].inventory = <<>>
           /\ provider_tree[loc.uuid].generation = r_gen[loc.uuid]

\* the DELETE of _delete_inventory was answered with 409, which the
\* placement service gives when classes of the inventory are in use
DeleteConflicted ==
    /\ Deleting
    /\ loc.status = 409
    /\ calls.delete_inv = 1
    /\ calls.put_inv = 0

\* C33: a DELETE of the inventory answered with 409 for classes in use
\* ends _delete_inventory without an exception and without another write,
\* and the cache keeps the provider with the inventory and the generation
\* of the fetch that came before.
C33_InUseDeletionIsQuiet ==
    DeleteConflicted =>
        /\ pc = "done"
        /\ result = "None"
        /\ exists(provider_tree, loc.uuid)
        /\ provider_tree[loc.uuid].generation = loc.cur_gen
        /\ provider_tree[loc.uuid].inventory # <<>>
        /\ {ContentOf(provider_tree[loc.uuid].inventory)} = loc.fetched
        /\ r_inv[loc.uuid] # <<>>

\* a deletion refused because of classes in use has returned
C33_Witness ==
    /\ DeleteConflicted
    /\ pc = "done"
    /\ result = "None"
    /\ has_inventory(provider_tree, loc.uuid)

(***************************************************************************)
(* Claims about the refresh of the associations.                           *)
(***************************************************************************)
\* the refresh of the provider of the call is at one of its GETs
Refreshing == pc \in {"r_aggs", "r_traits"}

\* a call of _ensure_resource_provider begins
EnsureBegins == pc = "idle" /\ call' = "_ensure_resource_provider"

\* the refresh is due: forced, never made, or made more than
\* ASSOCIATION_REFRESH seconds ago
Due(force, uuid) ==
    \/ force
    \/ uuid \notin DOMAIN association_refresh_time
    \/ now - association_refresh_time[uuid] > ASSOCIATION_REFRESH

\* what the first step of _ensure_resource_provider does, by the cache and
\* the refresh time it finds
EnsureFirstStep ==
    EnsureBegins =>
        IF ~exists(provider_tree, loc'.uuid) THEN pc' = "e_get"
        ELSE IF Due(FALSE, loc'.uuid)
             THEN /\ pc' = "r_aggs"
                  /\ ~loc'.force
                  /\ UNCHANGED cacheVars
             ELSE /\ pc' = "done"
                  /\ result' = loc'.uuid
                  /\ calls' = NoCalls
                  /\ UNCHANGED cacheVars

\* C34: _refresh_associations fetches the aggregates and the traits of a
\* provider exactly when the refresh is forced, or no refresh time is
\* recorded for the provider, or more than ASSOCIATION_REFRESH seconds have
\* passed since it; otherwise it makes no request and changes nothing.
\* _ensure_resource_provider forces the refresh exactly when it has put the
\* provider into the cache.
C34_RefreshWhenDue ==
    /\ [](Refreshing => Due(loc.force, loc.uuid))
    /\ [](Refreshing => (loc.force <=> loc.rp_from # "none"))
    /\ [][EnsureFirstStep]_vars

\* a provider that was cached is refreshed, without force, because its
\* refresh time is more than ASSOCIATION_REFRESH seconds old
C34_Witness ==
    /\ Ensuring
    /\ Refreshing
    /\ loc.cached
    /\ ~loc.force
    /\ loc.uuid \in DOMAIN association_refresh_time
    /\ now - association_refresh_time[loc.uuid] > ASSOCIATION_REFRESH

\* a provider that was cached and refreshed less than ASSOCIATION_REFRESH
\* seconds ago is ensured again without a request
FreshProviderEnsured ==
    /\ Ensuring
    /\ pc = "done"
    /\ loc.cached
    /\ calls = NoCalls
    /\ result = loc.uuid
    /\ now - association_refresh_time[loc.uuid] <= ASSOCIATION_REFRESH

\* the step records a refresh time for the provider of the call
Stamps ==
    /\ loc.uuid \in DOMAIN association_refresh_time'
    /\ \/ loc.uuid \notin DOMAIN association_refresh_time
       \/ association_refresh_time'[loc.uuid]
              # association_refresh_time[loc.uuid]

\* the refresh has come to the GET of the traits without aggregates: their
\* GET returned None
AggregatesFailed == pc = "r_traits" /\ loc.aggs = NoAggs

\* C35: the refresh time of a provider is recorded only after its whole
\* refresh succeeded; a refresh whose GET of the aggregates returned no
\* result records no refresh time, so that the next call refreshes again.
C35_FailedRefreshRecordsNoTime == [][AggregatesFailed => ~Stamps]_vars

\* the GETs of an inner refresh are for the provider at the head of the list
InnerRefresh == pc \in {"s_aggs", "s_traits"}

\* C36: the refresh of the sharing providers goes one hop: the providers
\* that share an aggregate with the refreshed provider and are not cached
\* are inserted as roots, never as children, and each is refreshed without
\* a sharing refresh of its own, so a provider reachable only through the
\* aggregates of a sharing provider is neither fetched nor inserted.
C36_SharingRefreshIsOneHop ==
    /\ \A u \in DOMAIN provider_tree : provider_tree[u].parent = "none"
    /\ ~exists(provider_tree, Far)
    /\ Far \notin DOMAIN association_refresh_time
    /\ InnerRefresh =>
           /\ loc.todo # <<>>
           /\ Head(loc.todo).uuid # Far
           /\ r_aggs[Head(loc.todo).uuid] \cap r_aggs[loc.uuid] # {}

\* the sharing provider is a root of the cache and its refresh has written
\* its aggregates, one of which holds a provider the cache does not have
C36_Witness ==
    /\ pc = "done"
    /\ exists(provider_tree, Node)
    /\ exists(provider_tree, Sharing)
    /\ provider_tree[Sharing].parent = "none"
    /\ provider_tree[Sharing].aggregates = Aggregates \cup FarAggregates
    /\ Sharing \in DOMAIN association_refresh_time
    /\ r_exists[Far]
    /\ r_aggs[Far] \cap provider_tree[Sharing].aggregates # {}
    /\ r_aggs[Far] \cap provider_tree[Node].aggregates = {}

\* the uuids with a refresh time
Timed == DOMAIN association_refresh_time

\* C39: every uuid with an entry in association_refresh_time is a provider
\* of the cache: each path that removes a provider from the cache (the
\* invalidation after a conflict, the 404 of an inventory deletion, the
\* deletion of the provider, the removal of a subtree) removes the refresh
\* times of the removed providers too.  Stated of the client between two
\* of its calls.
C39_RefreshTimesAreOfCachedProviders ==
    pc \in {"idle", "done"} => Timed \subseteq DOMAIN provider_tree

(***************************************************************************)
(* Claims about the attempts of claim_resources.                           *)
(***************************************************************************)
\* an attempt of claim_resources that has sent its PUT
ClaimAttemptWrites ==
    /\ a_op = "claim_resources"
    /\ a_attempt' = a_attempt + 1
    /\ a_writes' = a_writes + 1

\* the read of an attempt found allocations of the consumer
MoveRead(read) ==
    read.kind = "response" /\ read.status = 200 /\ read.allocations # <<>>

\* the payload is built from the allocations the read of this attempt
\* returned
PayloadFromOwnRead ==
    /\ a_read'.kind = "response"
    /\ a_payload'.project_id
    /\ a_payload'.user_id
    /\ a_payload'.allocations =
          IF MoveRead(a_read')
          THEN move_operation_alloc_request(a_read'.allocations,
                                            a_args.alloc_request)
          ELSE a_args.alloc_request

\* C40: claim_resources reads the allocations of the consumer in every
\* attempt, also in an attempt after a concurrent-update conflict, and
\* builds the PUT payload of the attempt from the allocations that attempt
\* read: the merged request exactly when the read answered 200 with
\* allocations, the destination request as it is otherwise; the project
\* and the user are attached in both cases.
C40_PayloadFromTheAttemptsRead ==
    [][ClaimAttemptWrites => PayloadFromOwnRead]_vars

\* an attempt after a conflict has read allocations of the consumer and
\* sent the merged request, which is not the destination request
C40_Witness ==
    /\ a_op = "claim_resources"
    /\ a_attempt >= 2
    /\ a_conflicts >= 1
    /\ MoveRead(a_read)
    /\ a_payload.allocations =
          move_operation_alloc_request(a_read.allocations,
                                       a_args.alloc_request)
    /\ a_payload.allocations # a_args.alloc_request
    /\ a_payload.project_id /\ a_payload.user_id

\* an attempt after a conflict has found no allocations and sent the
\* destination request as it is
RetrySentAsIs ==
    /\ a_op = "claim_resources"
    /\ a_attempt >= 2
    /\ a_conflicts >= 1
    /\ a_read.kind = "response"
    /\ ~MoveRead(a_read)
    /\ a_payload.allocations = a_args.alloc_request

(***************************************************************************)
(* Claims about threads in _ensure_resource_provider.                      *)
(***************************************************************************)
\* the threads between the check of line 617 and the insert of line 630
Inserting == { t \in Threads : t_pc[t] = "o_insert" }

BothInserting == Inserting = Threads /\ ~exists(provider_tree, Node)

(***************************************************************************)
(* Claims about termination.                                               *)
(***************************************************************************)
\* a call of the client is between two of its HTTP calls
Busy == pc \notin {"idle", "done"}

\* the HTTP calls one call of the client has made are bounded by the
\* attempts of _update_inventory and the conflicts met
BoundedCalls ==
    /\ loc.attempt <= 3
    /\ loc.failed <= 3
    /\ calls.get_inv <= 3
    /\ calls.put_inv <= 3
    /\ calls.delete_inv <= 1
    /\ loc.conflicts <= loc.attempt
    /\ calls.post_rp <= 1 + loc.conflicts
    /\ calls.get_rp <= 2 * (1 + loc.conflicts)

\* the refresh of a provider of the aggregates does not list providers
\* again: it goes through the list it has, which gets shorter
OneLevel ==
    pc \in {"s_aggs", "s_traits"} =>
        /\ pc' \in {"s_aggs", "s_traits"} => Len(loc'.todo) <= Len(loc.todo)
        /\ pc' # "r_sharing"
        /\ pc = "s_traits" /\ pc' = "s_aggs" =>
               Len(loc'.todo) < Len(loc.todo)

RECURSIVE Ancestors(_, _, _)
Ancestors(tree, uuid, n) ==
    IF n = 0 \/ uuid \notin DOMAIN tree \/ tree[uuid].parent = "none" THEN {}
    ELSE {tree[uuid].parent} \cup Ancestors(tree, tree[uuid].parent, n - 1)

\* every parent is cached, and no provider is above itself
IsForest(tree) ==
    \A u \in DOMAIN tree :
        /\ tree[u].parent # "none" => tree[u].parent \in DOMAIN tree
        /\ u \notin Ancestors(tree, u, Cardinality(DOMAIN tree))

\* C22: in every state the cache is an acyclic forest in which the parent
\* of every cached provider is cached; _ensure_resource_provider puts a
\* child only under a cached parent, also when it runs again after a
\* conflict has dropped the entry.
C22_CacheIsForest == IsForest(provider_tree)

\* the compute node's provider has been ensured again after a conflict on
\* its inventory, which dropped the child cached below it
C22_Witness ==
    /\ exists(loc.start, Child)
    /\ loc.start[Child].parent = Node
    /\ loc.uuid = Node
    /\ loc.conflicts > 0
    /\ exists(provider_tree, Node)
    /\ ~exists(provider_tree, Child)

\* the child is cached under the compute node's provider
ChildCached ==
    exists(provider_tree, Child) /\ provider_tree[Child].parent = Node

\* the child could not be put under a parent that had left the cache
ChildRefused ==
    /\ pc = "done"
    /\ loc.uuid = Child
    /\ result = "ValueError"
    /\ ~exists(provider_tree, Node)

\* the child came back as a root after a conflict on its inventory
ChildBecameRoot ==
    /\ exists(provider_tree, Child)
    /\ provider_tree[Child].parent = "none"

(***************************************************************************)
(* Claims about the traits.                                                *)
(***************************************************************************)
\* a call of _ensure_traits, at any of its steps or ended
EnsuringTraits == call = "_ensure_traits" /\ pc \in {"t_get", "t_put", "done"}

SettingTraits ==
    /\ call = "set_traits_for_provider"
    /\ pc \in {"t_get", "t_put", "t_set", "done"}

\* the traits the cache held for the provider when the call began
TraitsBefore == loc.before.tree[loc.uuid].traits

\* C25: set_traits_for_provider sends nothing when the proposed traits are
\* the cached traits; otherwise every requested trait exists in the
\* placement service when the one PUT goes out, and the PUT carries the
\* cached generation; 200 stores the returned traits and generation, 409
\* raises the update conflict, any other status the update failure, and the
\* two failures leave the cached traits as they were.
C25_TraitsEnsuredBeforePut ==
    (SettingTraits /\ exists(loc.before.tree, loc.uuid)) =>
        /\ loc.traits = TraitsBefore =>
               loc.tr.get = -1 /\ loc.tr.puts = 0 /\ loc.tr.set = -1
        /\ (pc = "t_set" \/ loc.tr.set # -1) =>
               /\ loc.traits \subseteq r_traits
               /\ loc.tr.sent = loc.before.tree[loc.uuid].generation
        /\ loc.tr.set = 200 =>
               /\ result = "None"
               /\ provider_tree[loc.uuid].traits = loc.traits
               /\ provider_tree[loc.uuid].generation = loc.tr.sent + 1
        /\ loc.tr.set = 409 =>
               /\ result = "ResourceProviderUpdateConflict"
               /\ provider_tree = loc.before.tree
        /\ loc.tr.set \notin {-1, 0, 200, 409} =>
               /\ result = "ResourceProviderUpdateFailed"
               /\ provider_tree = loc.before.tree

\* a call that has swallowed a transport error in one of its requests
SwallowedCall ==
    /\ call \in {"set_traits_for_provider", "_ensure_traits"}
    /\ loc.tr.raised # "none"

\* the call ended at the request that raised
EndedBySwallow ==
    /\ SwallowedCall
    /\ pc = "done"
    /\ \/ call = "_ensure_traits"
       \/ loc.tr.set = 0

\* what safe_connect does with a transport error: the guarded call returns
\* None, and the cache is emptied exactly when the error is
\* EndpointNotFound
CaughtAndFlushed ==
    /\ EndedBySwallow => result = "None"
    /\ (SwallowedCall /\ loc.tr.raised = "EndpointNotFound") =>
           provider_tree = <<>> /\ association_refresh_time = <<>>
    /\ (SwallowedCall /\ loc.tr.raised # "EndpointNotFound") =>
           /\ DOMAIN provider_tree = DOMAIN loc.before.tree
           /\ association_refresh_time = loc.before.times

DeleteNotFound == d_pc = "done" /\ d_status = 404

\* C11 as claimed: a deletion answered with 404 returns no failure value
\* and logs nothing at error severity.
C11_NotFoundIsSuccess ==
    DeleteNotFound =>
        /\ d_result # "False"
        /\ \A l \in d_logged : l.level # "error"

\* C11: a deletion answered with 404 raises nothing and logs nothing for
\* that answer, and nothing at error severity; delete_resource_provider
\* returns None as it does after a successful deletion, and
\* delete_allocation_for_instance returns False as it does after a failed
\* one.
C11_NotFoundIsQuiet ==
    DeleteNotFound =>
        /\ \A l \in d_logged : l.level # "error"
        /\ d_op = "delete_allocation_for_instance"
           => (d_result = "False" /\ d_logged = {})
        /\ d_op = "delete_resource_provider"
           => /\ d_result = "None"
              /\ \A l \in d_logged : l.by # "provider"

\* delete_allocation_for_instance has met a 404 and has returned
C11_Witness ==
    /\ DeleteNotFound
    /\ d_op = "delete_allocation_for_instance"
    /\ d_result = "False"

\* C23: once delete_resource_provider has had its DELETE accepted (204), or
\* answered with 404 because the provider is gone, the provider is absent
\* from the cache and has no entry among the refresh times.
C23_GoneProviderLeavesCache ==
    (d_op = "delete_resource_provider" /\ d_pc = "done"
        /\ d_status \in {204, 404})
    => /\ ~exists(provider_tree, Node)
       /\ Node \notin DOMAIN association_refresh_time

(***************************************************************************)
(* Claims about the threads.                                               *)
(***************************************************************************)
\* at most one thread is inside _create_client
C18_OneRebuildAtATime == Cardinality(Rebuilding) <= 1

\* C18: _create_client leaves the provider tree and the refresh times
\* empty, at most one thread runs it at a time, and no other thread reads
\* or writes the cache between its two assignments.
C18_RebuildIsExclusive ==
    /\ C18_OneRebuildAtATime
    /\ \A t \in Threads :
          t_pc[t] = "c_end"
          => provider_tree = <<>> /\ association_refresh_time = <<>>
    /\ ~torn

====
